---- MODULE Spec2Model ----
(***************************************************************************)
(* Batch enrichment pipeline of the dictionary admin service:              *)
(* processBatch of src/services/adminService.ts (lines 167-507) with the   *)
(* text generators of src/services/geminiService.ts.  One action per       *)
(* await point of the handler; the structured store is four sets of rows,  *)
(* the object store counts the files uploaded under each name.  The audio  *)
(* phase of the Gemini-TTS version of processBatch (lines 694-1096 of the  *)
(* same file) is modelled next to it for batches of audio tasks alone.     *)
(* SpecLive adds the fairness of the event loop; SpecPair runs two calls   *)
(* of processBatch on one term over one store, switching at the awaits.    *)
(***************************************************************************)
EXTENDS Integers, Sequences, FiniteSets, TLC

\* ---------------------------------------------------------------- bounds
MaxGenExamples == 2    \* most examples a text generator returns
MaxFaults == 1         \* store / object-store requests that fail during one batch

\* ------------------------------------------------------- program constants
maxRetries == 2        \* generateAndUploadTTS attempts per role
maxRetriesGemini == 3  \* the same in the Gemini-TTS version: attempts per model

\* ----------------------------------------------------------------- values
NULL == "null"                  \* SQL NULL / JS null in a text field
UNDEF == "undefined"            \* JS undefined (dropped from a JSON payload)
NOT_DUTCH == "NOT_DUTCH"        \* sentinel definition
Blank == " "                    \* a line that trims to the empty string
Langs == {"en", "zh"}
Styles == {"ghibli"}            \* style of the batch; the store also holds a "flat" image
Defs == {"aaa", "bbb"}

\* term = words[i].trim()
Trim(w) == IF w = Blank THEN "" ELSE w

\* Public URL of the k-th file uploaded under a name; NoUrl is a null URL column.
NoUrl == [prefix |-> NULL, name |-> NULL, tag |-> NULL, stamp |-> 0]
Url(prefix, name, tag, k) == [prefix |-> prefix, name |-> name, tag |-> tag, stamp |-> k]

\* The Dutch sentence / translation a provider writes for example k of a term.
Sentence(t, k) == IF k = 0 THEN "zin0" ELSE IF k = 1 THEN "zin1" ELSE "zin2"
Translation(t, k) == IF k = 0 THEN "tr0" ELSE IF k = 1 THEN "tr1" ELSE "tr2"
NoteOf(d) == IF d = "aaa" THEN "noteA" ELSE IF d = "bbb" THEN "noteB" ELSE NULL

\* grammar_data is abstracted to its article attribute: "de", "het", or "none"
\* for a bag without one.

\* -------------------------------------------------------- structured store
WordCols == {"term", "part_of_speech", "grammar_data", "pronunciation_audio_url"}
LcCols == {"word_id", "language_code", "definition", "usage_note"}
ExCols == {"word_id", "language_code", "sentence_index", "dutch_sentence",
           "translation", "audio_url"}
ImgCols == {"word_id", "style", "image_url"}

EmptyRec == [x \in {} |-> x]
\* A JSON payload field: undefined values are dropped by JSON.stringify.
\* (Faulty variant: the field never reaches the payload.)
OptDropped(f, v) == EmptyRec

Opt(f, v) == IF v = UNDEF THEN EmptyRec ELSE [x \in {f} |-> v]

\* Column default of a row inserted without that column.
ColDefault(c) == IF c \in {"pronunciation_audio_url", "audio_url", "image_url"}
                 THEN NoUrl ELSE NULL

\* supabase .upsert(payload, {onConflict: key}): a row with the same key takes
\* the payload's columns and keeps its other columns; otherwise a row is
\* inserted with defaults for the columns the payload lacks.
\* (Faulty variant: the conflict key is ignored and a row is always inserted.)
UpsertAsInsert(tbl, key, payload, cols) ==
  tbl \cup {[c \in cols |-> IF c \in DOMAIN payload THEN payload[c] ELSE ColDefault(c)]}

Upsert(tbl, key, payload, cols) ==
  LET match == {r \in tbl : \A f \in key : r[f] = payload[f]}
  IN IF match # {}
     THEN (tbl \ match) \cup
          {[c \in cols |-> IF c \in DOMAIN payload THEN payload[c] ELSE r[c]] : r \in match}
     ELSE tbl \cup {[c \in cols |-> IF c \in DOMAIN payload THEN payload[c] ELSE ColDefault(c)]}

\* supabase .update(payload).eq(...): every row satisfying the filter takes the
\* payload's columns; no row is created.
\* (Faulty variant: the rows outside the filter are lost.)
UpdateDropsOthers(tbl, filter, payload) ==
  {[c \in DOMAIN r |-> IF c \in DOMAIN payload THEN payload[c] ELSE r[c]]
     : r \in {x \in tbl : \A f \in DOMAIN filter : x[f] = filter[f]}}

Update(tbl, filter, payload) ==
  {[c \in DOMAIN r |-> IF c \in DOMAIN payload /\ (\A f \in DOMAIN filter : r[f] = filter[f])
                       THEN payload[c] ELSE r[c]] : r \in tbl}

\* ---------------------------------------------------------- text generators
\* A parsed model reply (the JSON object the prompt asks for).  A reply without
\* an examples array behaves as one with an empty array in every reader, and is
\* written as the empty sequence.
RawExamples(t, n) == [k \in 1..n |-> [dutch |-> Sentence(t, k - 1),
                                     translation |-> Translation(t, k - 1)]]

ArticleOf(t) == IF t = "huis" THEN "het" ELSE "de"

\* json.examples.map(ex => ({target: ex.dutch || ex.target, source: ex.translation || ex.source}))
MapExamples(exs) ==
  [k \in 1..Len(exs) |-> [target |-> exs[k].dutch, source |-> exs[k].translation]]

\* What a generator hands to its caller; cause is the error the provider raised.
Thrown(msg) == [kind |-> "throw", msg |-> msg, cause |-> msg]
Returned(entry) == [kind |-> "value", msg |-> "", cause |-> "", entry |-> entry]
ReturnedNull(cause) == [kind |-> "null", msg |-> "", cause |-> cause]
\* The request is never answered (fetch / generateContent without a deadline).
Pending == [kind |-> "hang", msg |-> "", cause |-> ""]

\* The entries a model writes for a Dutch term: a short one with one example
\* and a full one with as many examples as a reply can carry.
ExamplesIn(d) == IF d = "aaa" THEN 1 ELSE MaxGenExamples

\* For a term that is not Dutch the model answers with the sentinel.
Sentinel == [definition |-> NOT_DUTCH, partOfSpeech |-> UNDEF, grammar_data |-> UNDEF,
             usageNote |-> UNDEF, examples |-> <<>>]
IsDutch(t) == t = "huis"

\* generateDefinitionClaude: HTTP error, bad structure and parse failure throw
\* and the catch rethrows the same error; otherwise the reply with its examples
\* re-keyed to target/source.
generateDefinitionClaude(t) ==
  {Thrown("Claude API Error"), Returned(Sentinel), Pending} \cup
  {Returned([definition |-> d, partOfSpeech |-> "zn", grammar_data |-> ArticleOf(t),
             usageNote |-> NoteOf(d), examples |-> MapExamples(RawExamples(t, ExamplesIn(d)))])
     : d \in {x \in Defs : IsDutch(t)}}

\* generateDefinition(term, .., 'ghibli', 'gemini'): a cached or generated entry
\* whose schema has `grammar` (no top-level partOfSpeech / grammar_data).  With
\* provider 'gemini' the Claude branch is not entered; the part of speech and
\* the article are inside `grammar`; an error of the Gemini
\* call or of the parse is caught and null is returned.
generateDefinition(t) ==
  {ReturnedNull("Gemini API Error"), Returned(Sentinel), Pending} \cup
  {Returned([definition |-> d, partOfSpeech |-> UNDEF, grammar_data |-> UNDEF,
             grammar |-> ArticleOf(t),
             usageNote |-> NoteOf(d), examples |-> MapExamples(RawExamples(t, ExamplesIn(d)))])
     : d \in {x \in Defs : IsDutch(t)}}

\* ------------------------------------------------------------ other providers
\* ai.models.generateContent for the image, under withTimeout(.., 25000):
\* a rejection ("throw"), the deadline passing before any answer ("timeout"), a
\* reply without inline data, or inline data that is an image, is not an image,
\* or is not base64 at all.
ImageOutcomes == {"throw", "timeout", "nodata", "png", "junk", "bad64"}

\* addWatermark: a decodable image is redrawn on the 960x540 canvas, stamped and
\* re-encoded as JPEG; img.onerror resolves with the input unchanged.
addWatermark(data) == IF data = "png" THEN "jpeg960x540" ELSE data

\* base64ToUint8Array: null when atob throws.
base64ToUint8Array(data) == IF data = "bad64" THEN NULL ELSE data

\* fetch to the TTS endpoint: response.ok, 429, a refused key (401; 403 is
\* handled alike), a server error (500; a rejected fetch is handled alike), or
\* no answer at all ("hang": the fetch has no deadline).
TtsOutcomes == {"ok", "429", "401", "500", "hang"}

\* The Gemini-TTS version: ai.models.generateContent answers with inline audio
\* data that is base64 or is not, without inline data, or rejects with model
\* not found (404), a server error (500), quota (429) or a refused key (401),
\* or never answers ("hang": the call has no deadline).
GeminiTtsOutcomes == {"pcm", "bad64", "nodata", "404", "500", "429", "401", "hang"}
ProTts == "gemini-2.5-pro-tts"
FlashTts == "gemini-2.5-flash-preview-tts"

\* ------------------------------------------------------------------- state
VARIABLES
  words, localized_content, examples, word_images,  \* structured store tables
  files,              \* object store: the public URLs of the files uploaded
  list, cfg,          \* processBatch arguments: words and credentials/config
  pc, i,              \* position in processBatch and its loop index (1-based)
  wordId, wordData, existingWordRow,                \* per-term locals
  idx,                \* index of the example loops
  tts,                \* generateAndUploadTTS frame: role, text, attempt
  img,                \* image bytes in flight in phase B
  url,                \* public URL returned by the last upload
  trace,              \* events of the current segment of the term (text, image, one audio role)
  marks,              \* provider calls, phases entered and image failures of the term
  last,               \* the latest provider call or store access of the term
  outcome,            \* terminal line emitted for each list position
  status,             \* last batch: none, running, rejected or completed
  faults,             \* store / object-store requests that failed in this batch
  det, memo,          \* deterministic providers: replies fixed per request
  rerun, snap,        \* the batch repeats the previous inputs; store when the batch began
  before,             \* store and object store when the term began
  hadAudio,           \* per voice role: the stored record had audio when the audio phase began
  inflight,           \* provider requests issued, given up by withTimeout and not yet settled
  me, peer,          \* two runs of processBatch: the one taking steps (0: a single run, else 1
                      \* or 2) and the arguments, position and locals of the one that waits
  owner               \* two runs: per natural key, the run that wrote it last and, per column,
                      \* the run and the value of the last write that carried the column

storeVars == <<words, localized_content, examples, word_images>>
vars == <<words, localized_content, examples, word_images, files, list, cfg, pc, i,
          wordId, wordData, existingWordRow, idx, tts, img, url, trace, marks, last, outcome,
          status, faults, det, memo, rerun, snap, before, hadAudio, inflight, me, peer, owner>>

Store == [words |-> words, localized_content |-> localized_content,
          examples |-> examples, word_images |-> word_images]
StoreAndFiles == [words |-> words, localized_content |-> localized_content,
                  examples |-> examples, word_images |-> word_images, files |-> files]
Roles == {"word", "ex1", "ex2"}
NoAudio == [r \in Roles |-> FALSE]

\* --------------------------------------------------------------- arguments
\* The textarea lines of a batch: a Dutch term alone, before or after a word
\* that is not Dutch, after a blank line, and a blank line alone.
WordLists == {<<"huis">>, <<Blank>>, <<"hello", "huis">>, <<"huis", "hello">>, <<Blank, "huis">>}

\* BatchConfig plus the credential arguments (TRUE: a non-empty string).  An
\* argument the handler never reads under a task selection is held at its
\* default: provider without the text task, style without the image task,
\* overwrite flag without an audio task.
AllKeys == [serviceRoleKey |-> TRUE, supabaseUrl |-> TRUE, geminiKey |-> TRUE,
            claudeKey |-> TRUE, elevenLabsKey |-> TRUE]
TextOptions == {[text |-> FALSE, textProvider |-> "claude"],
                [text |-> TRUE, textProvider |-> "gemini"],
                [text |-> TRUE, textProvider |-> "claude"]}
ImageOptions == {[image |-> FALSE, imageStyle |-> "ghibli"]} \cup
                {[image |-> TRUE, imageStyle |-> s] : s \in Styles}
\* Audio roles: none, one of the three, or all of them.
AudioOptions ==
  {[audioWord |-> FALSE, audioEx1 |-> FALSE, audioEx2 |-> FALSE, overwriteAudio |-> FALSE]} \cup
  {c \in [audioWord : BOOLEAN, audioEx1 : BOOLEAN, audioEx2 : BOOLEAN, overwriteAudio : BOOLEAN]
     : \/ Cardinality({f \in {"audioWord", "audioEx1", "audioEx2"} : c[f]}) = 1
       \/ c.audioWord /\ c.audioEx1 /\ c.audioEx2}

FullyKeyed ==
  {AllKeys @@ t @@ im @@ a @@ [targetLangCode |-> l]
     : t \in TextOptions, im \in ImageOptions, a \in AudioOptions, l \in Langs}

\* The batches with one credential missing: every task selected.
AllTasks == [text |-> TRUE, textProvider |-> "claude", image |-> TRUE, imageStyle |-> "ghibli",
             audioWord |-> TRUE, audioEx1 |-> TRUE, audioEx2 |-> TRUE,
             overwriteAudio |-> TRUE, targetLangCode |-> "en"]
OneKeyMissing ==
  {[k \in DOMAIN AllKeys |-> k # missing] @@ AllTasks : missing \in DOMAIN AllKeys}

\* Batches that lack a provider key none of their tasks uses: text alone by
\* either provider, and the word audio alone.
TextOnly(p) == [text |-> TRUE, textProvider |-> p, image |-> FALSE, imageStyle |-> "ghibli",
                audioWord |-> FALSE, audioEx1 |-> FALSE, audioEx2 |-> FALSE,
                overwriteAudio |-> FALSE, targetLangCode |-> "en"]
WordAudioOnly == [text |-> FALSE, textProvider |-> "claude", image |-> FALSE,
                  imageStyle |-> "ghibli", audioWord |-> TRUE, audioEx1 |-> FALSE,
                  audioEx2 |-> FALSE, overwriteAudio |-> FALSE, targetLangCode |-> "en"]
UnusedKeyMissing ==
  {[AllKeys EXCEPT !.geminiKey = FALSE] @@ TextOnly("claude"),
   [AllKeys EXCEPT !.geminiKey = FALSE] @@ WordAudioOnly,
   [AllKeys EXCEPT !.claudeKey = FALSE] @@ TextOnly("gemini"),
   [AllKeys EXCEPT !.claudeKey = FALSE] @@ WordAudioOnly,
   [AllKeys EXCEPT !.elevenLabsKey = FALSE] @@ TextOnly("claude")}

\* version: which processBatch of adminService.ts runs the batch, the one with
\* ElevenLabs audio (1) or the one with Gemini TTS (2).
Configs == {c @@ [version |-> 1] : c \in FullyKeyed \cup OneKeyMissing \cup UnusedKeyMissing}

\* Batches with audio tasks alone.  The Gemini-TTS version has one provider key
\* (apiKey) and neither a text provider nor an overwrite flag; those fields are
\* held at their defaults.
AudioOnly == {c \in FullyKeyed : ~c.text /\ ~c.image
                                 /\ (c.audioWord \/ c.audioEx1 \/ c.audioEx2)}
AudioConfigs == {c @@ [version |-> 1] : c \in AudioOnly}
                  \cup {c @@ [version |-> 2] : c \in {x \in AudioOnly : ~x.overwriteAudio}}

\* ----------------------------------------------------------- initial stores
\* Object-store file: its name parts, its timestamp and what it holds.
File(prefix, name, tag, k, content) ==
  [prefix |-> prefix, name |-> name, tag |-> tag, stamp |-> k, content |-> content]
\* getPublicUrl(fileName) of the file just uploaded.
\* (Faulty variant: the URL of the first file under the name.)
FileUrlStale(f) == Url(f.prefix, f.name, f.tag, 1)

FileUrl(f) == Url(f.prefix, f.name, f.tag, f.stamp)
\* Date.now() of the next upload under a name: later than every earlier one.
NextStamp(fs, prefix, name, tag) ==
  1 + Cardinality({f \in fs : f.prefix = prefix /\ f.name = name /\ f.tag = tag})

EmptyStore == [words |-> {}, localized_content |-> {}, examples |-> {}, word_images |-> {},
               files |-> {}]

\* "huis" as earlier passes left it: a stored article, word audio, a "flat"
\* image, English content with two examples that have audio, Chinese content
\* without examples.
SeedHuis ==
  [words |-> {[term |-> "huis", part_of_speech |-> "zn", grammar_data |-> "de",
               pronunciation_audio_url |-> Url("audio/words", "huis", "", 1)]},
   localized_content |-> {[word_id |-> "huis", language_code |-> "en",
                           definition |-> "bbb", usage_note |-> "noteB"],
                          [word_id |-> "huis", language_code |-> "zh",
                           definition |-> "aaa", usage_note |-> "noteA"]},
   examples |-> {[word_id |-> "huis", language_code |-> "en", sentence_index |-> k,
                  dutch_sentence |-> Sentence("huis", k), translation |-> Translation("huis", k),
                  audio_url |-> Url("audio/examples", "huis", "", k + 1)] : k \in {0, 1}},
   word_images |-> {[word_id |-> "huis", style |-> "flat",
                     image_url |-> Url("images", "huis", "flat", 1)]},
   files |-> {File("audio/examples", "huis", "", k + 1, Sentence("huis", k)) : k \in {0, 1}}
             \cup {File("images", "huis", "flat", 1, "jpeg960x540"),
                   File("audio/words", "huis", "", 1, "huis")}]

Seeds == {EmptyStore, SeedHuis}

\* An event of the term: e is "call", "read", "write" or "upload" for a provider
\* call or a store access, and "log", "sleep", "phase", "fail", "error" or
\* "reply" (the error a provider answered with) otherwise.
Ev(e, m, d) == [e |-> e, m |-> m, d |-> d]
Log(m) == Ev("log", m, "")
NoEvent == Ev("none", "", "")

NoData == [none |-> TRUE]
NoRow == [none |-> TRUE]
NoTts == [role |-> "none", text |-> <<>>, attempt |-> 0, sIndex |-> 0, had |-> FALSE]
EmptyMemo == [x \in {} |-> x]

\* A run of processBatch that was not started yet.
NoRun == [list |-> <<>>, cfg |-> CHOOSE c \in Configs : TRUE, pc |-> "idle", i |-> 1,
          wordId |-> NULL, wordData |-> NoData, existingWordRow |-> NoRow, idx |-> 0,
          tts |-> NoTts, img |-> NULL, url |-> NoUrl, trace |-> <<>>, marks |-> {},
          last |-> NoEvent, outcome |-> <<>>, status |-> "none", faults |-> 0,
          rerun |-> FALSE]

\* runs: 0 for one run of processBatch alone, 1 for two runs over one store.
InitRuns(d, runs) ==
  /\ me = runs
  /\ peer = NoRun
  /\ owner = <<>>
  /\ \E s \in IF runs = 0 THEN Seeds ELSE {EmptyStore} :
       /\ words = s.words
       /\ localized_content = s.localized_content
       /\ examples = s.examples
       /\ word_images = s.word_images
       /\ files = s.files
       /\ snap = [words |-> s.words, localized_content |-> s.localized_content,
                  examples |-> s.examples, word_images |-> s.word_images]
       /\ before = s
  /\ list = <<>>
  /\ cfg = CHOOSE c \in Configs : TRUE
  /\ pc = "idle"
  /\ i = 1
  /\ wordId = NULL
  /\ wordData = NoData
  /\ existingWordRow = NoRow
  /\ idx = 0
  /\ tts = NoTts
  /\ img = NULL
  /\ url = NoUrl
  /\ trace = <<>>
  /\ marks = {}
  /\ last = NoEvent
  /\ outcome = <<>>
  /\ status = "none"
  /\ faults = 0
  /\ det = d
  /\ memo = EmptyMemo
  /\ rerun = FALSE
  /\ hadAudio = NoAudio
  /\ inflight = {}

InitWith(d) == InitRuns(d, 0)
Init == InitWith(FALSE)
InitDet == InitWith(TRUE)
InitPair == InitRuns(FALSE, 1)

\* ------------------------------------------------------------------ helpers
term == Trim(list[i])
hasAudioTask == cfg.audioWord \/ cfg.audioEx1 \/ cfg.audioEx2


\* The term does evs in this order.
RECURSIVE LastOp(_, _)
LastOp(evs, prev) ==
  IF evs = <<>> THEN prev
  ELSE IF evs[Len(evs)].e \notin {"call", "read", "write", "upload"}
       THEN LastOp(SubSeq(evs, 1, Len(evs) - 1), prev)
  ELSE evs[Len(evs)]
\* What the term remembers of an event: a TTS call keeps its role.
Mark(ev) == IF ev.m = "tts" THEN ev ELSE [ev EXCEPT !.d = ""]
Marked(evs) == {Mark(evs[k]) : k \in {j \in DOMAIN evs : evs[j].e \in {"call", "phase", "fail"}}}
\* A new term (or batch) starts with evs.
Reset(evs) ==
  /\ trace' = evs
  /\ marks' = {}
  /\ last' = NoEvent
\* The current segment continues with evs.
Emit(evs) ==
  /\ trace' = trace \o evs
  /\ marks' = marks \cup Marked(evs)
  /\ last' = LastOp(evs, last)
\* A new segment of the term starts with evs.
Begin(evs) ==
  /\ trace' = evs
  /\ marks' = marks \cup Marked(evs)
  /\ last' = LastOp(evs, last)

Field(r, f) == IF f \in DOMAIN r THEN r[f] ELSE UNDEF
Truthy(v) == v \notin {UNDEF, NULL, ""}

\* Replies of a provider to a request: any of them, or the remembered one when
\* providers are deterministic.
Replies(key, all) == IF det /\ key \in DOMAIN memo THEN {memo[key]} ELSE all
Remember(key, v) == IF det /\ key \notin DOMAIN memo THEN (key :> v) @@ memo ELSE memo
\* Whether a store or object-store request succeeds.
Accepts == IF det \/ faults >= MaxFaults THEN {TRUE} ELSE BOOLEAN
Count(ok) == faults' = IF ok THEN faults ELSE faults + 1

\* rows.order('sentence_index', {ascending: true})
\* (Faulty variant: descending order.)
RECURSIVE OrderDescending(_)
OrderDescending(S) ==
  IF S = {} THEN <<>>
  ELSE LET r == CHOOSE x \in S : \A y \in S : x.sentence_index >= y.sentence_index
       IN <<r>> \o OrderDescending(S \ {r})

RECURSIVE OrderBySentenceIndex(_)
OrderBySentenceIndex(S) ==
  IF S = {} THEN <<>>
  ELSE LET r == CHOOSE x \in S : \A y \in S : x.sentence_index <= y.sentence_index
       IN <<r>> \o OrderBySentenceIndex(S \ {r})

\* ------------------------------------------------------------- processBatch
\* An accepted upsert or update of the row of `key` in table `tbl` by the run
\* taking the step: the run becomes the key's last writer and the writer of
\* every non-key column of the payload.
Written(tbl, key, payload) ==
  LET k == <<tbl, key>>
      old == IF k \in DOMAIN owner THEN owner[k].cols ELSE <<>>
      cols == DOMAIN payload \ DOMAIN key
      new == [c \in cols \cup DOMAIN old |->
                IF c \in cols THEN [by |-> me, v |-> payload[c]] ELSE old[c]]
  IN IF me = 0 THEN owner ELSE (k :> [last |-> me, cols |-> new]) @@ owner

runVars == <<det, rerun, snap, before, hadAudio, inflight, me, peer>>
ghostVars == <<runVars, owner>>
localVars == <<wordId, wordData, existingWordRow, idx, tts, img, url>>

\* Entry of processBatch: the credential check, then the loop.
Enter(l, c, again) ==
  /\ pc = "idle"
  /\ list' = l
  /\ cfg' = c
  /\ rerun' = again
  /\ snap' = Store
  /\ i' = 1
  /\ faults' = 0
  /\ IF ~c.serviceRoleKey \/ ~c.supabaseUrl \/ ~c.geminiKey
     THEN /\ status' = "rejected"
          /\ Reset(<<Log("MissingCredentials")>>)
          /\ outcome' = <<>>
          /\ pc' = "idle"
     ELSE /\ status' = "running"
          /\ Reset(<<>>)
          /\ outcome' = [k \in 1..Len(l) |-> "none"]
          /\ pc' = "loop"
  /\ before' = StoreAndFiles
  /\ hadAudio' = NoAudio
  /\ UNCHANGED <<storeVars, files, localVars, det, memo, inflight, me, peer, owner>>

\* The first batch over the store.
StartBatch ==
  /\ status = "none"
  /\ \E l \in WordLists, c \in Configs :
       /\ words = {} => c.targetLangCode = "en"   \* languages are alike over an empty store
       /\ Enter(l, c, FALSE)

\* The operator runs the same batch once more.
Rerun == status = "completed" /\ ~rerun /\ Enter(list, cfg, TRUE)

\* for (i ...) exit: the completion line.
BatchCompleted ==
  /\ pc = "loop" /\ i > Len(list)
  /\ status' = "completed"
  /\ pc' = "idle"
  /\ Reset(<<Log("BatchCompleted")>>)
  /\ UNCHANGED <<faults, storeVars, files, list, cfg, i, localVars, outcome, memo, ghostVars>>

\* if (!term) continue;
SkipBlank ==
  /\ pc = "loop" /\ i <= Len(list) /\ term = ""
  /\ i' = i + 1
  /\ outcome' = [outcome EXCEPT ![i] = "blank"]
  /\ UNCHANGED <<faults, storeVars, files, list, cfg, pc, localVars, trace, marks, last, status, memo, ghostVars>>

BeginTerm ==
  /\ pc = "loop" /\ i <= Len(list) /\ term # ""
  /\ Reset(<<Log("Processing")>>)
  /\ wordId' = NULL
  /\ wordData' = NoData
  /\ existingWordRow' = NoRow
  /\ idx' = 0 /\ tts' = NoTts /\ img' = NULL /\ url' = NoUrl
  /\ outcome' = [outcome EXCEPT ![i] = "started"]
  /\ pc' = IF cfg.text THEN "A_gen" ELSE "lookup"
  /\ before' = StoreAndFiles
  /\ hadAudio' = NoAudio
  /\ UNCHANGED <<faults, storeVars, files, list, cfg, i, status, memo, det, rerun, snap, inflight,
                 me, peer, owner>>

\* catch (e) { onLog(`Error processing ...`) } of the per-term try.
\* (Faulty variant: the error leaves processBatch.)
CatchRethrows(evs, msg) ==
  /\ Emit(evs \o <<Ev("log", "Error", msg)>>)
  /\ outcome' = [outcome EXCEPT ![i] = "error"]
  /\ status' = "aborted"
  /\ pc' = "idle"

Catch(evs, msg) ==
  /\ Emit(evs \o <<Ev("log", "Error", msg)>>)
  /\ outcome' = [outcome EXCEPT ![i] = "error"]
  /\ status' = status
  /\ pc' = "after"

\* if (wordData.definition === "NOT_DUTCH") throw ...
\* (Faulty variant: the sentinel is not recognised.)
NeverNotDutch(entry) == FALSE

isNotDutch(entry) == entry.definition = NOT_DUTCH

\* --- PHASE A: the text provider call and the sentinel check.
TextGenerate ==
  /\ pc = "A_gen"
  /\ IF cfg.textProvider = "claude" /\ ~cfg.claudeKey
     THEN /\ Catch(<<Ev("phase", "A", ""), Log("GeneratingText")>>, "Claude API Key is missing.")
          /\ UNCHANGED <<wordData, memo>>
     ELSE \E r \in Replies(<<"text", cfg.textProvider, term>>,
                           IF cfg.textProvider = "claude" THEN generateDefinitionClaude(term)
                                                           ELSE generateDefinition(term)) :
            LET evs == <<Ev("phase", "A", ""), Log("GeneratingText"),
                        Ev("call", "text", cfg.textProvider)>>
                         \o (IF r.cause = "" THEN <<>> ELSE <<Ev("reply", "text", r.cause)>>) IN
            /\ memo' = Remember(<<"text", cfg.textProvider, term>>, r)
            /\ IF r.kind = "hang"
                 THEN /\ Emit(evs)
                      /\ pc' = "hung"
                      /\ UNCHANGED <<wordData, outcome, status>>
               ELSE IF r.kind = "throw" THEN Catch(evs, r.msg) /\ UNCHANGED wordData
               ELSE IF r.kind = "null"
                 THEN Catch(evs, "Generation Failed or Timed Out") /\ UNCHANGED wordData
               ELSE IF isNotDutch(r.entry)
                 THEN Catch(evs, "Word detected as Not Dutch/Invalid") /\ UNCHANGED wordData
               ELSE /\ wordData' = r.entry
                    /\ Emit(evs)
                    /\ pc' = "A_words"
                    /\ UNCHANGED <<outcome, status>>
  /\ UNCHANGED <<faults, storeVars, files, list, cfg, i, wordId, existingWordRow, idx, tts, img, url, ghostVars>>

\* The payload of the words upsert.
\* (Faulty variant: the payload names the audio column.)
wordsPayloadResetsAudio ==
  [term |-> term, pronunciation_audio_url |-> NoUrl]
    @@ Opt("part_of_speech", wordData.partOfSpeech)
    @@ Opt("grammar_data", wordData.grammar_data)

wordsPayload ==
  [term |-> term] @@ Opt("part_of_speech", wordData.partOfSpeech)
    @@ Opt("grammar_data", wordData.grammar_data)

\* words upsert on term, selecting id and pronunciation_audio_url; a store
\* error is thrown.
UpsertWord ==
  /\ pc = "A_words"
  /\ \E ok \in Accepts : Count(ok) /\
       IF ok
       THEN /\ words' = Upsert(words, {"term"}, wordsPayload, WordCols)
            /\ owner' = Written("words", [term |-> term], wordsPayload)
            /\ wordId' = term
            /\ existingWordRow' =
                 LET r == CHOOSE x \in words' : x.term = term
                 IN [pronunciation_audio_url |-> r.pronunciation_audio_url]
            /\ Emit(<<Ev("write", "words", "")>>)
            /\ pc' = "A_lc"
            /\ UNCHANGED <<outcome, status>>
       ELSE /\ Catch(<<Ev("write", "words", "failed")>>, "wordErr")
            /\ UNCHANGED <<words, wordId, existingWordRow, owner>>
  /\ UNCHANGED <<localized_content, examples, word_images, files, list, cfg, i, wordData,
                 idx, tts, img, url, memo, runVars>>

\* The payload of the localized_content upsert.
localizedPayload ==
  [word_id |-> wordId, language_code |-> cfg.targetLangCode]
    @@ Opt("definition", wordData.definition) @@ Opt("usage_note", wordData.usageNote)

\* localized_content upsert on (word_id, language_code); its result is not read.
UpsertLocalized ==
  /\ pc = "A_lc"
  /\ \E ok \in Accepts : Count(ok) /\
       /\ localized_content' =
            IF ok THEN Upsert(localized_content, {"word_id", "language_code"},
                              localizedPayload, LcCols)
            ELSE localized_content
       /\ owner' = IF ok THEN Written("localized_content",
                                      [word_id |-> wordId, language_code |-> cfg.targetLangCode],
                                      localizedPayload)
                   ELSE owner
       /\ Emit(<<Ev("write", "localized_content", IF ok THEN "" ELSE "failed")>>
                 \o (IF Len(wordData.examples) = 0 THEN <<Log("TextSaved")>> ELSE <<>>))
  /\ idx' = 0
  /\ pc' = IF Len(wordData.examples) = 0 THEN "lookup" ELSE "A_ex"
  /\ UNCHANGED <<words, examples, word_images, files, list, cfg, i, wordId, wordData,
                 existingWordRow, tts, img, url, outcome, status, memo, runVars>>

\* The key and the payload of the examples upsert.
exampleKey(k) ==
  [word_id |-> wordId, language_code |-> cfg.targetLangCode, sentence_index |-> k]
examplePayload(ex) ==
  exampleKey(idx) @@ [audio_url |-> NoUrl]
    @@ Opt("dutch_sentence", Field(ex, "dutch")) @@ Opt("translation", Field(ex, "translation"))

\* examples upsert on (word_id, language_code, sentence_index) with audio_url:
\* null, once per element of wordData.examples; its result is not read.
UpsertExample ==
  /\ pc = "A_ex"
  /\ LET ex == wordData.examples[idx + 1]
         isLast == idx + 1 = Len(wordData.examples)
     IN /\ \E ok \in Accepts : Count(ok) /\
             /\ examples' =
                  IF ok THEN Upsert(examples, {"word_id", "language_code", "sentence_index"},
                                    examplePayload(ex), ExCols)
                  ELSE examples
             /\ owner' = IF ok THEN Written("examples", exampleKey(idx), examplePayload(ex))
                         ELSE owner
             /\ Emit(<<Ev("write", "examples", IF ok THEN "" ELSE "failed")>> 
                       \o (IF isLast THEN <<Log("TextSaved")>> ELSE <<>>))
        /\ idx' = idx + 1
        /\ pc' = IF isLast THEN "lookup" ELSE "A_ex"
  /\ UNCHANGED <<words, localized_content, word_images, files, list, cfg, i, wordId, wordData,
                 existingWordRow, tts, img, url, outcome, status, memo, runVars>>

\* --- LOOKUP: if (!wordId && (config.tasks.image || hasAudioTask))
\* (Faulty variant: the lookup is never made.)
NeedsLookupNever == FALSE

NeedsLookup == wordId = NULL /\ (cfg.image \/ hasAudioTask)

LookupNotNeeded ==
  /\ pc = "lookup" /\ ~NeedsLookup
  /\ pc' = "B"
  /\ UNCHANGED <<faults, storeVars, files, list, cfg, i, localVars, trace, marks, last, outcome, status, memo, ghostVars>>

\* words select by term (maybeSingle; the error is not read, data is then null).
\* A missing row skips the term with `continue`, past the inter-term sleep.
LookupWord ==
  /\ pc = "lookup" /\ NeedsLookup /\ cfg.version = 1
  /\ \E ok \in Accepts : Count(ok) /\
       LET rows == IF ok THEN {r \in words : r.term = term} ELSE {}
           evs == <<Log("Checking"), Ev("read", "words", IF ok THEN "" ELSE "failed")>>
       IN IF rows = {}
          THEN /\ Emit(evs \o <<Log("NotFound")>>)
               /\ outcome' = [outcome EXCEPT ![i] = "notfound"]
               /\ i' = i + 1
               /\ pc' = "loop"
               /\ UNCHANGED <<wordId, existingWordRow>>
          ELSE /\ \E r \in rows :
                    existingWordRow' = [pronunciation_audio_url |-> r.pronunciation_audio_url,
                                        grammar_data |-> r.grammar_data]
               /\ wordId' = term
               /\ Emit(evs \o <<Log("FoundId")>>)
               /\ pc' = "lookup_ex"
               /\ UNCHANGED <<outcome, i>>
  /\ UNCHANGED <<storeVars, files, list, cfg, wordData, idx, tts, img, url, status, memo, ghostVars>>

\* examples select for (word_id, language_code) ordered by sentence_index,
\* rebuilt as {dutch, index, hasAudio}; grammar_data || {}.
LookupExamples ==
  /\ pc = "lookup_ex"
  /\ \E ok \in Accepts : Count(ok) /\
       LET rows == IF ok THEN {r \in examples : r.word_id = wordId
                                               /\ r.language_code = cfg.targetLangCode}
                   ELSE {}
           existExs == OrderBySentenceIndex(rows)
       IN /\ wordData' =
               [grammar_data |-> IF existingWordRow.grammar_data = NULL THEN "none"
                                 ELSE existingWordRow.grammar_data,
                examples |-> [k \in 1..Len(existExs) |->
                                [dutch |-> existExs[k].dutch_sentence,
                                 index |-> existExs[k].sentence_index,
                                 hasAudio |-> existExs[k].audio_url # NoUrl]]]
          /\ Emit(<<Ev("read", "examples", IF ok THEN "" ELSE "failed")>>)
          /\ pc' = IF cfg.image /\ rows = {} THEN "lookup_any" ELSE "B"
  /\ UNCHANGED <<storeVars, files, list, cfg, i, wordId, existingWordRow, idx, tts, img, url,
                 outcome, status, memo, ghostVars>>

\* Image context fallback: any example row of the word, limit(1), no order.
LookupAnyExample ==
  /\ pc = "lookup_any"
  /\ \E ok \in Accepts : Count(ok) /\
       LET rows == IF ok THEN {r \in examples : r.word_id = wordId} ELSE {}
       IN /\ IF rows = {} THEN UNCHANGED wordData
             ELSE \E r \in rows :
                    wordData' = [wordData EXCEPT !.examples = <<[dutch |-> r.dutch_sentence]>>]
          /\ Emit(<<Ev("read", "examples", IF ok THEN "any" ELSE "failed")>>)
  /\ pc' = "B"
  /\ UNCHANGED <<storeVars, files, list, cfg, i, wordId, existingWordRow, idx, tts, img, url,
                 outcome, status, memo, ghostVars>>

\* --- PHASE B: if (config.tasks.image && wordId)
\* (Faulty variant: the image task is not asked for.)
PhaseBGateUngated ==
  /\ pc = "B"
  /\ IF wordId # NULL
     THEN Begin(<<Ev("phase", "B", ""), Log("Painting")>>) /\ pc' = "B_call"
     ELSE Begin(<<>>) /\ pc' = "C"
  /\ UNCHANGED <<faults, storeVars, files, list, cfg, i, localVars, outcome, status, memo,
                 ghostVars>>

PhaseBGate ==
  /\ pc = "B"
  /\ IF cfg.image /\ wordId # NULL
     THEN Begin(<<Ev("phase", "B", ""), Log("Painting")>>) /\ pc' = "B_call"
     ELSE Begin(<<>>) /\ pc' = "C"
  /\ UNCHANGED <<faults, storeVars, files, list, cfg, i, localVars, outcome, status, memo,
                 ghostVars>>

\* wordData?.examples?.[0]?.dutch || term
contextSentence ==
  IF Len(wordData.examples) > 0 /\ Truthy(Field(wordData.examples[1], "dutch"))
  THEN wordData.examples[1].dutch ELSE term

\* catch (imgErr) { onLog(`Image failed ...`) } of phase B
ImageCatch(evs) ==
  /\ Emit(evs \o <<Ev("fail", "image", "call"), Log("ImageFailed")>>)
  /\ pc' = "C"
  /\ UNCHANGED <<faults, outcome, status>>

\* withTimeout(promise, ms): the timer rejects with `API Timeout after ${ms}ms`
\* while the request it was given stays issued; nothing aborts it.
withTimeout(o) == IF o = "timeout" THEN inflight \cup {"image"} ELSE inflight

\* The image provider call under withTimeout(.., 25000).
ImageCall ==
  /\ pc = "B_call"
  /\ \E o \in Replies(<<"image", cfg.imageStyle, term>>, ImageOutcomes) :
       LET evs == <<Ev("call", "image", contextSentence)>> IN
       /\ memo' = Remember(<<"image", cfg.imageStyle, term>>, o)
       /\ inflight' = withTimeout(o)
       /\ IF o = "throw" THEN ImageCatch(evs) /\ UNCHANGED img
          ELSE IF o = "timeout"
            THEN ImageCatch(evs \o <<Ev("reply", "image", "API Timeout after 25000ms")>>)
                 /\ UNCHANGED img
          ELSE IF o = "nodata"
            THEN /\ Emit(evs \o <<Ev("fail", "image", "nodata")>>)
                 /\ pc' = "C"
                 /\ UNCHANGED <<img, outcome, status>>
          ELSE /\ Emit(evs \o <<Log("Optimizing")>>)
               /\ img' = o
               /\ pc' = "B_mark"
               /\ UNCHANGED <<outcome, status>>
  /\ UNCHANGED <<faults, storeVars, files, list, cfg, i, wordId, wordData, existingWordRow, idx, tts,
                 url, det, rerun, snap, before, hadAudio, me, peer, owner>>

\* The answer to a request that withTimeout gave up arrives: the promise it
\* settles has no handler left, so nothing of the batch changes.
\* (Faulty variant: the answer is uploaded and written for the word at hand.)
LateReplyResumes ==
  /\ inflight # {}
  /\ \E r \in inflight : inflight' = inflight \ {r}
  /\ LET f == File("images", wordId, cfg.imageStyle,
                   NextStamp(files, "images", wordId, cfg.imageStyle), "jpeg960x540")
     IN /\ files' = files \cup {f}
        /\ word_images' = Upsert(word_images, {"word_id", "style"},
                                 [word_id |-> wordId, style |-> cfg.imageStyle,
                                  image_url |-> FileUrl(f)], ImgCols)
  /\ UNCHANGED <<faults, words, localized_content, examples, list, cfg, pc, i, localVars, trace,
                 marks, last, outcome, status, memo, det, rerun, snap, before, hadAudio, me, peer,
                 owner>>

LateReply ==
  /\ inflight # {}
  /\ \E r \in inflight : inflight' = inflight \ {r}
  /\ UNCHANGED <<faults, storeVars, files, list, cfg, pc, i, localVars, trace, marks, last,
                 outcome, status, memo, det, rerun, snap, before, hadAudio, me, peer, owner>>

\* await addWatermark(base64Img), then base64ToUint8Array.
Watermark ==
  /\ pc = "B_mark"
  /\ img' = addWatermark(img)
  /\ IF base64ToUint8Array(img') = NULL
     THEN Emit(<<Ev("fail", "image", "decode")>>) /\ pc' = "C"
     ELSE UNCHANGED <<trace, marks, last>> /\ pc' = "B_upload"
  /\ UNCHANGED <<faults, storeVars, files, list, cfg, i, wordId, wordData, existingWordRow, idx, tts,
                 url, outcome, status, memo, ghostVars>>

\* storage upload of images/<term>_<style>_<now>.jpg; nothing is done on upErr.
ImageUpload ==
  /\ pc = "B_upload"
  /\ \E ok \in Accepts : Count(ok) /\
       IF ok
       THEN LET f == File("images", term, cfg.imageStyle,
                          NextStamp(files, "images", term, cfg.imageStyle), img)
            IN /\ files' = files \cup {f}
               /\ url' = FileUrl(f)
               /\ Emit(<<Ev("upload", "image", "")>>)
               /\ pc' = "B_write"
       ELSE /\ Emit(<<Ev("upload", "image", "failed"), Ev("fail", "image", "upload")>>)
            /\ pc' = "C"
            /\ UNCHANGED <<files, url>>
  /\ UNCHANGED <<storeVars, list, cfg, i, wordId, wordData, existingWordRow, idx, tts, img,
                 outcome, status, memo, ghostVars>>

\* word_images upsert on (word_id, style); its result is not read.
ImageWrite ==
  /\ pc = "B_write"
  /\ \E ok \in Accepts : Count(ok) /\
       /\ word_images' =
            IF ok THEN Upsert(word_images, {"word_id", "style"},
                              [word_id |-> wordId, style |-> cfg.imageStyle, image_url |-> url],
                              ImgCols)
            ELSE word_images
       /\ owner' = IF ok THEN Written("word_images", [word_id |-> wordId, style |-> cfg.imageStyle],
                                      [image_url |-> url])
                   ELSE owner
       /\ Emit(<<Ev("write", "word_images", IF ok THEN "" ELSE "failed")>>
                 \o (IF ok THEN <<>> ELSE <<Ev("fail", "image", "write")>>)
                 \o <<Log("ImageUploaded")>>)
  /\ pc' = "C"
  /\ UNCHANGED <<words, localized_content, examples, files, list, cfg, i, localVars,
                 outcome, status, memo, runVars>>

\* Whether the stored record of each voice role of the term has an audio URL.
StoredAudio ==
  [r \in Roles |->
     IF r = "word"
     THEN \E w \in words : w.term = wordId /\ w.pronunciation_audio_url # NoUrl
     ELSE \E x \in examples : /\ x.word_id = wordId
                              /\ x.language_code = cfg.targetLangCode
                              /\ x.sentence_index = (IF r = "ex1" THEN 0 ELSE 1)
                              /\ x.audio_url # NoUrl]

\* --- PHASE C: if (hasAudioTask && wordId), then the ElevenLabs key check.
PhaseCGate ==
  /\ pc = "C" /\ cfg.version = 1
  /\ IF hasAudioTask /\ wordId # NULL
     THEN /\ hadAudio' = StoredAudio
          /\ IF ~cfg.elevenLabsKey
             THEN /\ Begin(<<Ev("phase", "C", ""), Log("ProcessingAudio"), Log("NoElevenLabsKey")>>)
                  /\ pc' = "fin"
             ELSE /\ Begin(<<Ev("phase", "C", ""), Log("ProcessingAudio")>>)
                  /\ pc' = "C_word"
     ELSE Begin(<<>>) /\ pc' = "fin" /\ UNCHANGED hadAudio
  /\ UNCHANGED <<faults, storeVars, files, list, cfg, i, localVars, outcome, status, memo,
                 det, rerun, snap, before, inflight, me, peer, owner>>

\* Skip test of an audio role: the audio exists and overwriteAudio is off.
Skips(hasAudio) == hasAudio /\ ~cfg.overwriteAudio

\* textToSpeak: the term, prefixed by its article when that is de or het.
textToSpeak ==
  LET article == Field(wordData, "grammar_data")
  IN IF article \in {"de", "het"} THEN <<article, term>> ELSE <<term>>

\* 1. Word Audio
WordAudio ==
  /\ pc = "C_word"
  /\ LET wordHasAudio == existingWordRow.pronunciation_audio_url # NoUrl
     IN IF ~cfg.audioWord
        THEN /\ pc' = "C_ex"
             /\ Begin(<<>>) /\ UNCHANGED tts
        ELSE IF Skips(wordHasAudio)
        THEN /\ Begin(<<Ev("log", "AudioExists", "word")>>)
             /\ pc' = "C_ex"
             /\ UNCHANGED tts
        ELSE /\ tts' = [role |-> "word", text |-> textToSpeak, attempt |-> 0, sIndex |-> 0,
                        had |-> wordHasAudio]
             /\ pc' = "tts_call"
             /\ Begin(<<>>)
  /\ idx' = 0
  /\ UNCHANGED <<faults, storeVars, files, list, cfg, i, wordId, wordData, existingWordRow, img, url,
                 outcome, status, memo, ghostVars>>

RoleOf(sIndex) == IF sIndex = 0 THEN "ex1" ELSE "ex2"

\* Return of generateAndUploadTTS to its caller: the word role continues with
\* the examples loop, an example role with the next example.
\* (Faulty variant: the audio phase ends with the role.)
AfterTtsEndsPhase ==
  /\ pc' = "fin"
  /\ idx' = idx

AfterTts ==
  /\ pc' = "C_ex"
  /\ idx' = IF tts.role = "word" THEN 0 ELSE idx + 1

\* 2. Examples Audio: one pass of `for (const ex of wordData.examples)`.
ExampleAudio ==
  /\ pc = "C_ex"
  /\ IF idx >= Len(wordData.examples)
     THEN /\ pc' = "fin"
          /\ Begin(<<>>) /\ UNCHANGED <<tts, idx>>
     ELSE LET ex == wordData.examples[idx + 1]
              sIndex == IF "index" \in DOMAIN ex THEN ex.index ELSE idx
              shouldGen == (sIndex = 0 /\ cfg.audioEx1) \/ (sIndex = 1 /\ cfg.audioEx2)
              exHasAudio == "hasAudio" \in DOMAIN ex /\ ex.hasAudio
          IN IF ~(shouldGen /\ Truthy(Field(ex, "dutch")))
             THEN /\ idx' = idx + 1
                  /\ pc' = "C_ex"
                  /\ Begin(<<>>) /\ UNCHANGED tts
             ELSE IF Skips(exHasAudio)
             THEN /\ Begin(<<Ev("log", "AudioExists", RoleOf(sIndex))>>)
                  /\ idx' = idx + 1
                  /\ pc' = "C_ex"
                  /\ UNCHANGED tts
             ELSE /\ tts' = [role |-> RoleOf(sIndex), text |-> <<ex.dutch>>, attempt |-> 0,
                             sIndex |-> sIndex, had |-> exHasAudio]
                  /\ Begin(<<Ev("sleep", "500", "")>>)
                  /\ pc' = "tts_call"
                  /\ UNCHANGED idx
  /\ UNCHANGED <<faults, storeVars, files, list, cfg, i, wordId, wordData, existingWordRow, img, url,
                 outcome, status, memo, ghostVars>>

\* e.message.includes('Quota'): the error thrown for status 429.
\* (Faulty variant: quota is handled as any other error.)
IsQuotaNever(o) == FALSE

IsQuota(o) == o = "429"

\* generateAndUploadTTS, one pass of `while (attempt < maxRetries)`: the fetch.
\* 429 returns null at once; another status is retried after sleep(1000).
TtsCall ==
  /\ pc = "tts_call"
  /\ \E o \in Replies(<<"tts", tts.role, term>>, TtsOutcomes) :
       LET call == Ev("call", "tts", tts.role) IN
       /\ memo' = Remember(<<"tts", tts.role, term>>, o)
       /\ IF o = "hang"
          THEN /\ Emit(<<call>>)
               /\ pc' = "hung"
               /\ UNCHANGED <<tts, idx>>
          ELSE IF o = "ok"
          THEN /\ Emit(<<call>>)
               /\ pc' = "tts_upload"
               /\ UNCHANGED <<tts, idx>>
          ELSE IF IsQuota(o)
          THEN /\ Emit(<<call, Ev("reply", "tts", o), Ev("fail", "tts", tts.role),
                         Ev("log", "Quota", tts.role)>>)
               /\ tts' = [tts EXCEPT !.attempt = @ + 1]
               /\ AfterTts
          ELSE /\ tts' = [tts EXCEPT !.attempt = @ + 1]
               /\ Emit(<<call, Ev("reply", "tts", o)>>
                         \o (IF tts.attempt + 1 >= maxRetries
                             THEN <<Ev("fail", "tts", tts.role), Ev("log", "TtsFailed", tts.role)>>
                             ELSE <<>>))
               /\ pc' = "tts_sleep"
               /\ UNCHANGED idx
  /\ UNCHANGED <<faults, storeVars, files, list, cfg, i, wordId, wordData, existingWordRow, img, url,
                 outcome, status, ghostVars>>

\* await sleep(1000) in the catch, then the loop test.
TtsRetry ==
  /\ pc = "tts_sleep"
  /\ IF tts.attempt < maxRetries
     THEN pc' = "tts_call" /\ UNCHANGED idx
     ELSE AfterTts
  /\ UNCHANGED <<faults, storeVars, files, list, cfg, i, wordId, wordData, existingWordRow, tts, img,
                 url, trace, marks, last, outcome, status, memo, ghostVars>>

\* storage upload of <pathPrefix>/<term>_<now>.mp3; upErr is logged, null returned.
\* (Faulty variant: the caller writes the URL without testing it.)
TtsUploadUnguarded ==
  /\ pc = "tts_upload"
  /\ \E ok \in Accepts : Count(ok) /\
       IF ok
       THEN LET prefix == IF tts.role = "word" THEN "audio/words" ELSE "audio/examples"
                f == File(prefix, term, "", NextStamp(files, prefix, term, ""), tts.text[Len(tts.text)])
            IN /\ files' = files \cup {f}
               /\ url' = FileUrl(f)
               /\ Emit(<<Ev("upload", "audio", tts.role)>>)
       ELSE /\ Emit(<<Ev("upload", "audio", tts.role), Ev("error", "upload", tts.role),
                      Ev("fail", "tts", tts.role), Ev("log", "StorageUploadError", tts.role)>>)
            /\ url' = NoUrl
            /\ UNCHANGED files
  /\ pc' = "tts_write"
  /\ UNCHANGED <<storeVars, list, cfg, i, wordId, wordData, existingWordRow, idx, tts, img,
                 outcome, status, memo, ghostVars>>

TtsUpload ==
  /\ pc = "tts_upload"
  /\ \E ok \in Accepts : Count(ok) /\
       IF ok
       THEN LET prefix == IF tts.role = "word" THEN "audio/words" ELSE "audio/examples"
                f == File(prefix, term, "", NextStamp(files, prefix, term, ""), tts.text[Len(tts.text)])
            IN /\ files' = files \cup {f}
               /\ url' = FileUrl(f)
               /\ Emit(<<Ev("upload", "audio", tts.role)>>)
               /\ pc' = "tts_write"
               /\ UNCHANGED idx
       ELSE /\ Emit(<<Ev("upload", "audio", tts.role), Ev("error", "upload", tts.role),
                      Ev("fail", "tts", tts.role), Ev("log", "StorageUploadError", tts.role)>>)
            /\ AfterTts
            /\ UNCHANGED <<files, url>>
  /\ UNCHANGED <<storeVars, list, cfg, i, wordId, wordData, existingWordRow, tts, img,
                 outcome, status, memo, ghostVars>>

\* The caller's update of the audio URL: words by id, examples by
\* (word_id, language_code, sentence_index); its result is not read.
TtsWrite ==
  /\ pc = "tts_write"
  /\ \E ok \in Accepts : Count(ok) /\
       /\ IF tts.role = "word"
          THEN /\ words' = IF ok THEN Update(words, [term |-> wordId],
                                            [pronunciation_audio_url |-> url])
                           ELSE words
               /\ UNCHANGED examples
          ELSE /\ examples' = IF ok THEN Update(examples, exampleKey(tts.sIndex),
                                               [audio_url |-> url])
                              ELSE examples
               /\ UNCHANGED words
       /\ owner' = IF ~ok THEN owner
                   ELSE IF tts.role = "word"
                     THEN Written("words", [term |-> wordId], [pronunciation_audio_url |-> url])
                   ELSE Written("examples", exampleKey(tts.sIndex), [audio_url |-> url])
       /\ Emit(<<Ev("write", "audio_url", tts.role)>>
                 \o (IF ok THEN <<>> ELSE <<Ev("error", "audio_url", tts.role)>>)
                 \o <<Ev("log", IF tts.had THEN "Overwritten" ELSE "Saved", tts.role)>>)
  /\ AfterTts
  /\ UNCHANGED <<localized_content, word_images, files, list, cfg, i, wordId, wordData,
                 existingWordRow, tts, img, url, outcome, status, memo, runVars>>

\* onLog(`Finished [term]`) at the end of the try block.
\* (Faulty variant: the line is emitted twice.)
FinishRepeats ==
  /\ pc = "fin"
  /\ Emit(<<Log("Finished"), Log("Finished")>>)
  /\ outcome' = [outcome EXCEPT ![i] = "finished"]
  /\ pc' = "after"
  /\ UNCHANGED <<faults, storeVars, files, list, cfg, i, localVars, status, memo, ghostVars>>

Finish ==
  /\ pc = "fin"
  /\ Emit(<<Log("Finished")>>)
  /\ outcome' = [outcome EXCEPT ![i] = "finished"]
  /\ pc' = "after"
  /\ UNCHANGED <<faults, storeVars, files, list, cfg, i, localVars, status, memo, ghostVars>>

\* if (i < words.length - 1) await sleep(DELAY_BETWEEN_WORDS_MS); then i++.
InterTermDelay ==
  /\ pc = "after" /\ i < Len(list)
  /\ Emit(<<Ev("sleep", "DELAY_BETWEEN_WORDS_MS", "")>>)
  /\ i' = i + 1
  /\ pc' = "loop"
  /\ UNCHANGED <<faults, storeVars, files, list, cfg, localVars, outcome, status, memo, ghostVars>>

LastTerm ==
  /\ pc = "after" /\ i >= Len(list)
  /\ i' = i + 1
  /\ pc' = "loop"
  /\ UNCHANGED <<faults, storeVars, files, list, cfg, localVars, trace, marks, last, outcome, status, memo,
                 ghostVars>>

\* ------------------------------------- processBatch of the Gemini-TTS version
\* The words select by term of the Gemini-TTS version (select('id')).
GeminiLookupWord ==
  /\ pc = "lookup" /\ NeedsLookup /\ cfg.version = 2
  /\ \E ok \in Accepts : Count(ok) /\
       LET rows == IF ok THEN {r \in words : r.term = term} ELSE {}
           evs == <<Log("Checking"), Ev("read", "words", IF ok THEN "" ELSE "failed")>>
       IN IF rows = {}
          THEN /\ Emit(evs \o <<Log("NotFound")>>)
               /\ outcome' = [outcome EXCEPT ![i] = "notfound"]
               /\ i' = i + 1
               /\ pc' = "loop"
               /\ UNCHANGED wordId
          ELSE /\ wordId' = term
               /\ Emit(evs \o <<Log("FoundId")>>)
               /\ pc' = "g_lookup_ex"
               /\ UNCHANGED <<outcome, i>>
  /\ UNCHANGED <<storeVars, files, list, cfg, wordData, existingWordRow, idx, tts, img, url,
                 status, memo, ghostVars>>

\* The examples select of the Gemini-TTS version, rebuilt as {dutch, index}.
\* (The image-context fallback select is made only with the image task.)
GeminiLookupExamples ==
  /\ pc = "g_lookup_ex" /\ ~cfg.image
  /\ \E ok \in Accepts : Count(ok) /\
       LET rows == IF ok THEN {r \in examples : r.word_id = wordId
                                               /\ r.language_code = cfg.targetLangCode}
                   ELSE {}
           existExs == OrderBySentenceIndex(rows)
       IN /\ wordData' = [examples |-> [k \in 1..Len(existExs) |->
                                         [dutch |-> existExs[k].dutch_sentence,
                                          index |-> existExs[k].sentence_index]]]
          /\ Emit(<<Ev("read", "examples", IF ok THEN "" ELSE "failed")>>)
  /\ pc' = "B"
  /\ UNCHANGED <<storeVars, files, list, cfg, i, wordId, existingWordRow, idx, tts, img, url,
                 outcome, status, memo, ghostVars>>

\* --- PHASE C of the Gemini-TTS version: if (hasAudioTask && wordId)
GeminiPhaseCGate ==
  /\ pc = "C" /\ cfg.version = 2
  /\ IF hasAudioTask /\ wordId # NULL
     THEN /\ hadAudio' = StoredAudio
          /\ Begin(<<Ev("phase", "C", ""), Log("ProcessingAudio")>>)
          /\ pc' = "g_word"
     ELSE Begin(<<>>) /\ pc' = "fin" /\ UNCHANGED hadAudio
  /\ UNCHANGED <<faults, storeVars, files, list, cfg, i, localVars, outcome, status, memo,
                 det, rerun, snap, before, inflight, me, peer, owner>>

\* 1. Word Audio: generateAndUploadTTS(term, 'audio/words')
GeminiWordAudio ==
  /\ pc = "g_word"
  /\ IF cfg.audioWord
     THEN /\ tts' = [role |-> "word", text |-> <<term>>, attempt |-> 0, sIndex |-> 0,
                     had |-> FALSE, model |-> ProTts]
          /\ pc' = "g_call"
     ELSE pc' = "g_ex" /\ UNCHANGED tts
  /\ Begin(<<>>)
  /\ idx' = 0
  /\ UNCHANGED <<faults, storeVars, files, list, cfg, i, wordId, wordData, existingWordRow, img, url,
                 outcome, status, memo, ghostVars>>

\* Return of generateAndUploadTTS to its caller in the Gemini-TTS version.
GeminiAfterTts ==
  /\ pc' = "g_ex"
  /\ idx' = IF tts.role = "word" THEN 0 ELSE idx + 1

\* 2. Examples Audio: one pass of `for (const ex of wordData.examples)`.
GeminiExampleAudio ==
  /\ pc = "g_ex"
  /\ IF idx >= Len(wordData.examples)
     THEN /\ pc' = "fin"
          /\ Begin(<<>>) /\ UNCHANGED <<tts, idx>>
     ELSE LET ex == wordData.examples[idx + 1]
              sIndex == IF "index" \in DOMAIN ex THEN ex.index ELSE idx
              shouldGen == (sIndex = 0 /\ cfg.audioEx1) \/ (sIndex = 1 /\ cfg.audioEx2)
          IN IF ~(shouldGen /\ Truthy(Field(ex, "dutch")))
             THEN /\ idx' = idx + 1
                  /\ pc' = "g_ex"
                  /\ Begin(<<>>) /\ UNCHANGED tts
             ELSE /\ tts' = [role |-> RoleOf(sIndex), text |-> <<ex.dutch>>, attempt |-> 0,
                             sIndex |-> sIndex, had |-> FALSE, model |-> ProTts]
                  /\ Begin(<<Ev("sleep", "500", "")>>)
                  /\ pc' = "g_call"
                  /\ UNCHANGED idx
  /\ UNCHANGED <<faults, storeVars, files, list, cfg, i, wordId, wordData, existingWordRow, img, url,
                 outcome, status, memo, ghostVars>>

\* if (currentTtsModel === "gemini-2.5-flash-preview-tts"): already on the fallback.
\* (Faulty variant: the guard is missing.)
OnFallbackModelNever(model) == FALSE

OnFallbackModel(model) == model = FlashTts

\* if (attempt < maxRetries) after attempt++ on a server error.
\* (Faulty variant: a server error is always retried.)
RetryServerErrorAlways(attempt) == TRUE

RetryServerError(attempt) == attempt < maxRetriesGemini

\* generateAndUploadTTS of the Gemini-TTS version, one pass of
\* `while (attempt < maxRetries)`: the call, the decoding of its reply and the
\* catch with the model fallback, the server-error retry and the other errors.
GeminiTtsCall ==
  /\ pc = "g_call"
  /\ \E o \in GeminiTtsOutcomes :
       LET call == Ev("call", "tts", tts.role)
           failed == Ev("fail", "tts", tts.role)
       IN IF o = "hang"
          THEN /\ Emit(<<call>>)
               /\ pc' = "hung"
               /\ UNCHANGED <<tts, idx>>
          ELSE IF o \in {"pcm", "bad64", "nodata"}
          THEN IF o # "nodata" /\ base64ToUint8Array(o) # NULL
               THEN /\ Emit(<<call>>)
                    /\ pc' = "g_upload"
                    /\ UNCHANGED <<tts, idx>>
               ELSE /\ Emit(<<call, failed>>)
                    /\ GeminiAfterTts
                    /\ UNCHANGED tts
          ELSE IF o = "404"
          THEN IF OnFallbackModel(tts.model)
               THEN /\ Emit(<<call, Ev("reply", "tts", o), failed,
                              Ev("log", "FallbackFailed", tts.role)>>)
                    /\ GeminiAfterTts
                    /\ UNCHANGED tts
               ELSE /\ Emit(<<call, Ev("reply", "tts", o), Ev("log", "ModelFallback", tts.role)>>)
                    /\ tts' = [tts EXCEPT !.model = FlashTts, !.attempt = 0]
                    /\ pc' = "g_call"
                    /\ UNCHANGED idx
          ELSE IF o = "500" /\ RetryServerError(tts.attempt + 1)
          THEN /\ Emit(<<call, Ev("reply", "tts", o), Ev("log", "ServerErrorRetrying", tts.role)>>)
               /\ tts' = [tts EXCEPT !.attempt = @ + 1]
               /\ pc' = "g_backoff"
               /\ UNCHANGED idx
          ELSE /\ Emit(<<call, Ev("reply", "tts", o), failed,
                         Ev("log", IF o = "429" THEN "Quota" ELSE "TtsFailed", tts.role)>>)
               /\ tts' = [tts EXCEPT !.attempt = IF o = "500" THEN @ + 1 ELSE @]
               /\ GeminiAfterTts
  /\ UNCHANGED <<faults, storeVars, files, list, cfg, i, wordId, wordData, existingWordRow, img, url,
                 outcome, status, memo, ghostVars>>

\* await sleep(1500 * attempt); continue;
GeminiTtsBackoff ==
  /\ pc = "g_backoff"
  /\ Emit(<<Ev("sleep", "backoff", tts.role)>>)
  /\ pc' = "g_call"
  /\ UNCHANGED <<faults, storeVars, files, list, cfg, i, localVars, outcome, status, memo,
                 ghostVars>>

\* storage upload of <pathPrefix>/<term>_<now>.wav; upErr is logged, null returned.
GeminiTtsUpload ==
  /\ pc = "g_upload"
  /\ \E ok \in Accepts : Count(ok) /\
       IF ok
       THEN LET prefix == IF tts.role = "word" THEN "audio/words" ELSE "audio/examples"
                f == File(prefix, term, "", NextStamp(files, prefix, term, ""), tts.text[Len(tts.text)])
            IN /\ files' = files \cup {f}
               /\ url' = FileUrl(f)
               /\ Emit(<<Ev("upload", "audio", tts.role)>>)
               /\ pc' = "g_write"
               /\ UNCHANGED idx
       ELSE /\ Emit(<<Ev("upload", "audio", tts.role), Ev("error", "upload", tts.role),
                      Ev("fail", "tts", tts.role), Ev("log", "StorageUploadError", tts.role)>>)
            /\ GeminiAfterTts
            /\ UNCHANGED <<files, url>>
  /\ UNCHANGED <<storeVars, list, cfg, i, wordId, wordData, existingWordRow, tts, img,
                 outcome, status, memo, ghostVars>>

\* The caller's update of the audio URL in the Gemini-TTS version.
GeminiTtsWrite ==
  /\ pc = "g_write"
  /\ \E ok \in Accepts : Count(ok) /\
       /\ IF tts.role = "word"
          THEN /\ words' = IF ok THEN Update(words, [term |-> wordId],
                                            [pronunciation_audio_url |-> url])
                           ELSE words
               /\ UNCHANGED examples
          ELSE /\ examples' = IF ok THEN Update(examples, exampleKey(tts.sIndex),
                                               [audio_url |-> url])
                              ELSE examples
               /\ UNCHANGED words
       /\ owner' = IF ~ok THEN owner
                   ELSE IF tts.role = "word"
                     THEN Written("words", [term |-> wordId], [pronunciation_audio_url |-> url])
                   ELSE Written("examples", exampleKey(tts.sIndex), [audio_url |-> url])
       /\ Emit(<<Ev("write", "audio_url", tts.role)>>
                 \o (IF ok THEN <<>> ELSE <<Ev("error", "audio_url", tts.role)>>)
                 \o <<Ev("log", "Saved", tts.role)>>)
  /\ GeminiAfterTts
  /\ UNCHANGED <<localized_content, word_images, files, list, cfg, i, wordId, wordData,
                 existingWordRow, tts, img, url, outcome, status, memo, runVars>>

\* A batch of audio tasks alone, run by either version over the first store.
StartAudioBatch ==
  /\ status = "none"
  /\ \E l \in WordLists, c \in AudioConfigs :
       /\ words = {} => c.targetLangCode = "en"
       /\ Enter(l, c, FALSE)

\* Two runs of processBatch over one store: the Claude text alone or with the
\* word audio.
PairTasks ==
  {c \in FullyKeyed :
     /\ c.text /\ c.textProvider = "claude" /\ c.targetLangCode = "en"
     /\ ~c.image /\ ~c.audioEx1 /\ ~c.audioEx2
     /\ c.overwriteAudio = c.audioWord}
PairConfigs == {c @@ [version |-> 1] : c \in PairTasks}

\* One of the two runs is started on the same term: the first one with the
\* word audio, the second one with the text alone.
StartPair ==
  /\ me # 0 /\ status = "none"
  /\ \E c \in PairConfigs : c.audioWord = (me = 1) /\ Enter(<<"huis">>, c, FALSE)

\* The arguments, position and locals of the run taking steps.
Run == [list |-> list, cfg |-> cfg, pc |-> pc, i |-> i, wordId |-> wordId,
        wordData |-> wordData, existingWordRow |-> existingWordRow, idx |-> idx, tts |-> tts,
        img |-> img, url |-> url, trace |-> trace, marks |-> marks, last |-> last,
        outcome |-> outcome, status |-> status, faults |-> faults, rerun |-> rerun]

\* The positions at which processBatch awaits a provider, the store or a timer.
Awaits == {"A_gen", "A_words", "A_lc", "A_ex", "B_call", "B_upload", "B_write", "tts_call",
           "tts_sleep", "tts_upload", "tts_write", "after", "hung", "idle"}

\* The run taking steps awaits a promise and the event loop resumes the peer
\* run (or the operator starts it); between two awaits a run is not interrupted.
Switch ==
  /\ me # 0 /\ status # "none" /\ peer.status \in {"none", "running"}
  /\ pc \in Awaits
  /\ me' = 3 - me
  /\ peer' = Run
  /\ list' = peer.list /\ cfg' = peer.cfg /\ pc' = peer.pc /\ i' = peer.i
  /\ wordId' = peer.wordId /\ wordData' = peer.wordData
  /\ existingWordRow' = peer.existingWordRow /\ idx' = peer.idx /\ tts' = peer.tts
  /\ img' = peer.img /\ url' = peer.url /\ trace' = peer.trace /\ marks' = peer.marks
  /\ last' = peer.last /\ outcome' = peer.outcome /\ status' = peer.status
  /\ faults' = peer.faults /\ rerun' = peer.rerun
  /\ UNCHANGED <<storeVars, files, det, memo, snap, before, hadAudio, inflight, owner>>

Next ==
  \/ StartBatch \/ BatchCompleted \/ SkipBlank \/ BeginTerm
  \/ TextGenerate \/ UpsertWord \/ UpsertLocalized \/ UpsertExample
  \/ LookupNotNeeded \/ LookupWord \/ LookupExamples \/ LookupAnyExample
  \/ PhaseBGate \/ ImageCall \/ LateReply \/ Watermark \/ ImageUpload \/ ImageWrite
  \/ PhaseCGate \/ WordAudio \/ ExampleAudio \/ TtsCall \/ TtsRetry \/ TtsUpload \/ TtsWrite
  \/ Finish \/ InterTermDelay \/ LastTerm

\* The same handler with deterministic providers and a store that accepts
\* every request, run twice over the same inputs.
NextDet == Next \/ Rerun

\* The audio phase alone, in both versions of the service.
NextAudio ==
  \/ StartAudioBatch \/ BatchCompleted \/ SkipBlank \/ BeginTerm
  \/ LookupWord \/ LookupExamples \/ PhaseBGate
  \/ PhaseCGate \/ WordAudio \/ ExampleAudio \/ TtsCall \/ TtsRetry \/ TtsUpload \/ TtsWrite
  \/ GeminiLookupWord \/ GeminiLookupExamples \/ GeminiPhaseCGate \/ GeminiWordAudio
  \/ GeminiExampleAudio \/ GeminiTtsCall \/ GeminiTtsBackoff \/ GeminiTtsUpload
  \/ GeminiTtsWrite
  \/ Finish \/ InterTermDelay \/ LastTerm

Spec == Init /\ [][Next]_vars
SpecDet == InitDet /\ [][NextDet]_vars
SpecAudio == Init /\ [][NextAudio]_vars
\* Two runs whose steps interleave at every await.
NextPair ==
  \/ StartPair \/ Switch \/ BatchCompleted \/ BeginTerm
  \/ TextGenerate \/ UpsertWord \/ UpsertLocalized \/ UpsertExample
  \/ LookupNotNeeded \/ PhaseBGate
  \/ PhaseCGate \/ WordAudio \/ ExampleAudio \/ TtsCall \/ TtsRetry \/ TtsUpload \/ TtsWrite
  \/ Finish \/ LastTerm
SpecPair == InitPair /\ [][NextPair]_vars

\* The event loop runs a continuation of processBatch as soon as the promise it
\* awaits settles, and timers fire: no enabled step is postponed for ever.
SpecLive == Init /\ [][Next]_vars /\ WF_vars(Next)

TypeOK ==
  /\ pc \in {"idle", "loop", "A_gen", "A_words", "A_lc", "A_ex", "lookup", "lookup_ex",
             "lookup_any", "B", "B_call", "B_mark", "B_upload", "B_write", "C", "C_word",
             "C_ex", "tts_call", "tts_sleep", "tts_upload", "tts_write", "fin", "after",
             "g_lookup_ex", "g_word", "g_ex", "g_call", "g_backoff", "g_upload", "g_write",
             "hung"}
  /\ inflight \subseteq {"image"}
  /\ status \in {"none", "running", "rejected", "completed"}
  /\ faults \in 0..MaxFaults

\* ------------------------------------------------------------ observations
Range(f) == {f[k] : k \in DOMAIN f}
Logged(m) == \E ev \in Range(trace) : ev.e = "log" /\ ev.m = m
SentinelLogged == Ev("log", "Error", "Word detected as Not Dutch/Invalid") \in Range(trace)
Called(m) == \E ev \in marks : ev.e = "call" /\ ev.m = m
CalledTts(role) == Ev("call", "tts", role) \in marks
Selected(role) == IF role = "word" THEN cfg.audioWord
                  ELSE IF role = "ex1" THEN cfg.audioEx1 ELSE cfg.audioEx2
NoProviderCall == ~Called("text") /\ ~Called("image") /\ ~Called("tts")

\* ------------------------------------------------------------------- C1
\* C1: a failure while processing a term never ends the batch: processBatch
\* returns only after every line has been handled, each non-blank term having
\* been started and ended as finished, failed or skipped.
C1_BatchResilience ==
  (pc = "idle" /\ status \notin {"none", "rejected"})
    => /\ status = "completed"
       /\ \A k \in 1..Len(list) :
            IF Trim(list[k]) = "" THEN outcome[k] = "blank"
            ELSE outcome[k] \in {"finished", "error", "notfound"}

\* The first term failed and the second one was processed to its end.
C1_Witness ==
  status = "completed" /\ Len(list) = 2 /\ outcome = <<"error", "finished">>

\* ------------------------------------------------------------------- C2
\* C2: a sentinel reply is never taken as the term's data; the term that got
\* it ends in error with no row of any table created or modified, no upload
\* and no image or TTS call.
C2_SentinelRejection ==
  /\ Field(wordData, "definition") # NOT_DUTCH
  /\ (pc = "after" /\ SentinelLogged)
       => /\ outcome[i] = "error"
          /\ StoreAndFiles = before
          /\ ~Called("image") /\ ~Called("tts")

\* The sentinel came back for a stored word with image and audio tasks selected.
C2_Witness ==
  /\ pc = "after" /\ SentinelLogged /\ Called("text")
  /\ cfg.image /\ cfg.audioWord /\ before.words # {}

\* ------------------------------------------------------------------- C3
\* C3: without the text task and with an image or audio task, a term that has
\* no words row is skipped: the warning is logged, nothing is written or
\* uploaded and no provider is called.
C3_SkipOnMissingWord ==
  (/\ pc = "loop" /\ i > 1 /\ Trim(list[i - 1]) # ""
   /\ ~cfg.text /\ (cfg.image \/ hasAudioTask)
   /\ ~\E w \in before.words : w.term = Trim(list[i - 1]))
    => /\ outcome[i - 1] = "notfound"
       /\ Logged("NotFound")
       /\ StoreAndFiles = before
       /\ NoProviderCall

\* A term was skipped with image and audio tasks selected.
C3_Witness ==
  /\ pc = "loop" /\ i > 1 /\ outcome[i - 1] = "notfound"
  /\ ~cfg.text /\ cfg.image /\ hasAudioTask /\ before.words = {}

\* ------------------------------------------------------------------- C4
\* C4: right after the text phase of a term, every examples row of the
\* (word, language) has audio_url null.
C4_AudioInvalidated ==
  (pc = "lookup" /\ cfg.text)
    => \A x \in examples :
         (x.word_id = wordId /\ x.language_code = cfg.targetLangCode) => x.audio_url = NoUrl

\* ------------------------------------------------------------------- C5
\* C5: after a text phase whose localized_content upsert was accepted there is
\* exactly one row for (term, language), holding the definition and the usage
\* note of this run, also when an earlier run left a row for that key.
C5_UpsertReplaces ==
  (pc = "lookup" /\ cfg.text /\ Ev("write", "localized_content", "") \in Range(trace))
    => LET rows == {r \in localized_content :
                      r.word_id = wordId /\ r.language_code = cfg.targetLangCode}
       IN /\ Cardinality(rows) = 1
          /\ \A r \in rows : /\ r.definition = wordData.definition
                             /\ r.usage_note = wordData.usageNote

\* The text phase of a term replaced the different content an earlier run left.
C5_Witness ==
  /\ pc = "lookup" /\ cfg.text
  /\ Ev("write", "localized_content", "") \in Range(trace)
  /\ \E r \in before.localized_content :
       /\ r.word_id = wordId /\ r.language_code = cfg.targetLangCode
       /\ r.definition # wordData.definition

\* ------------------------------------------------------------------- C6
\* C6: with overwriteAudio off, a selected role whose stored record had audio
\* when the audio phase began is never submitted to the TTS provider.
C6_NoResubmission ==
  (pc = "fin" /\ ~cfg.overwriteAudio)
    => \A role \in Roles : (Selected(role) /\ hadAudio[role]) => ~CalledTts(role)

\* ------------------------------------------------------------------- C7
\* A URL column keeps only whether it is null.
Shape(r) == [c \in DOMAIN r |->
               IF c \in {"pronunciation_audio_url", "audio_url", "image_url"}
               THEN (IF r[c] = NoUrl THEN "null" ELSE "set") ELSE r[c]]
Shapes(st) == [t \in DOMAIN st |-> {Shape(r) : r \in st[t]}]
\* Every URL column that is set names a file of the object store, and the
\* latest one uploaded under that name if the run replaced it.
LatestFile(u) == \E f \in files : FileUrl(f) = u
Repointed(u) ==
  \A f \in files : (f.prefix = u.prefix /\ f.name = u.name /\ f.tag = u.tag) => f.stamp <= u.stamp
UrlsOf(st) ==
  {w.pronunciation_audio_url : w \in st.words} \cup {x.audio_url : x \in st.examples}
    \cup {m.image_url : m \in st.word_images}

\* C7: with deterministic providers and overwriteAudio off, the second run of
\* the same batch ends with the rows and non-URL values the first run left,
\* every URL null or set as before, a changed URL and every image URL naming
\* the latest file uploaded under its name; the object store only grows.
C7_RerunIdempotent ==
  (status = "completed" /\ rerun /\ ~cfg.overwriteAudio)
    => /\ Shapes(Store) = Shapes(snap)
       /\ before.files \subseteq files
       /\ \A t \in DOMAIN snap : Cardinality(Store[t]) = Cardinality(snap[t])
       /\ \A u \in UrlsOf(Store) \ {NoUrl} : LatestFile(u) /\ (u \notin UrlsOf(snap) => Repointed(u))
       /\ \A m \in word_images : Repointed(m.image_url)

\* The second run regenerated text and uploaded a new image for a stored word.
C7_Witness ==
  /\ status = "completed" /\ rerun /\ ~cfg.overwriteAudio
  /\ cfg.text /\ cfg.image /\ hasAudioTask
  /\ UrlsOf(Store) # UrlsOf(snap)
  /\ \E r \in 1..Len(list) : outcome[r] = "finished"

\* ------------------------------------------------------------------- C8
Unique(tbl, key) == \A r1, r2 \in tbl : (\A f \in key : r1[f] = r2[f]) => r1 = r2

\* C8: at most one words row per term, one localized_content row per
\* (word, language), one examples row per (word, language, sentence_index) and
\* one word_images row per (word, style).
C8_NaturalKeys ==
  /\ Unique(words, {"term"})
  /\ Unique(localized_content, {"word_id", "language_code"})
  /\ Unique(examples, {"word_id", "language_code", "sentence_index"})
  /\ Unique(word_images, {"word_id", "style"})

\* A pass over a stored term has written every table again.
C8_Witness ==
  /\ pc = "fin" /\ cfg.text /\ before.words # {} /\ words # before.words
  /\ localized_content # before.localized_content /\ examples # before.examples
  /\ Cardinality(word_images) = 2 /\ word_images # before.word_images
  /\ examples # {} /\ localized_content # {}

\* ------------------------------------------------------------------- C9
\* Place of a provider call or store access in the order of a term.
Rank(ev) ==
  IF ev.e = "none" THEN 0
  ELSE IF ev.e = "read" THEN 2
  ELSE IF ev.m \in {"text", "words", "localized_content", "examples"} THEN 1
  ELSE IF ev.m \in {"image", "word_images"} THEN 3
  ELSE IF ev.d = "word" THEN 4
  ELSE IF ev.d = "ex1" THEN 5
  ELSE 6

\* C9: within a term no call or store access of an earlier phase follows one
\* of a later phase (text, lookup, image, audio), and within the audio phase
\* none for an earlier role follows one for a later role (word, example-1,
\* example-2).
C9_PhaseOrdering ==
  [][last' = NoEvent \/ Rank(last') >= Rank(last)]_vars

\* A term called the image provider and then the TTS provider for all roles.
C9_Witness ==
  /\ pc = "fin" /\ Called("image")
  /\ CalledTts("word") /\ CalledTts("ex1") /\ CalledTts("ex2")
  /\ last.m = "audio_url" /\ last.d = "ex2"

\* ------------------------------------------------------------------ C10
ImageFailure == {ev \in marks : ev.e = "fail" /\ ev.m = "image"}

\* C10: a step in which the image phase of a term fails logs the failure,
\* leaves the term running towards its audio phase and keeps the text rows.
C10_ImageFailureNonFatal ==
  [][(ImageFailure' # ImageFailure /\ ImageFailure' # {})
       => /\ Log("ImageFailed") \in Range(trace')
          /\ pc' = "C" /\ outcome'[i'] = "started"
          /\ words' = words /\ localized_content' = localized_content
          /\ examples' = examples]_vars

\* ------------------------------------------------------------------ C11
TtsFailed(role) == Ev("fail", "tts", role) \in marks
PhaseCRan == Ev("phase", "C", "") \in marks /\ cfg.elevenLabsKey
\* The audio phase submits the role: it is selected, its text is at hand and
\* its audio is missing or to be overwritten.
Eligible(role) ==
  IF role = "word"
  THEN cfg.audioWord /\ ~Skips(Field(existingWordRow, "pronunciation_audio_url") # NoUrl)
  ELSE \E k \in DOMAIN wordData.examples :
         LET ex == wordData.examples[k]
             sIndex == IF "index" \in DOMAIN ex THEN ex.index ELSE k - 1
         IN /\ RoleOf(sIndex) = role /\ sIndex \in {0, 1} /\ Selected(role)
            /\ Truthy(Field(ex, "dutch"))
            /\ ~Skips("hasAudio" \in DOMAIN ex /\ ex.hasAudio)

\* C11: when the audio of a role failed (provider error, quota or upload
\* error), every other role the audio phase has to produce was still
\* submitted to the TTS provider by the end of the term.
C11_RolesIndependent ==
  (pc = "fin" /\ PhaseCRan)
    => \A failed \in Roles, other \in Roles :
         (failed # other /\ TtsFailed(failed) /\ Eligible(other)) => CalledTts(other)

\* The audio of all three roles failed in one term, each after its own call.
C11_Witness ==
  /\ pc = "fin" /\ PhaseCRan
  /\ \A role \in Roles : TtsFailed(role) /\ Eligible(role) /\ CalledTts(role)

\* ------------------------------------------------------------------ C12
Delay == Ev("sleep", "DELAY_BETWEEN_WORDS_MS", "")

\* C12: the step that leaves a term for the next list position takes the
\* inter-term delay exactly when the term is not the last one, however the
\* term ended.
C12_InterTermDelay ==
  [][(i' = i + 1 /\ Trim(list[i]) # "")
       => (Delay \in Range(trace') <=> i < Len(list))]_vars

\* ------------------------------------------------------------------ C13
\* C13: a batch without the storage URL or the service-role key logs the one
\* missing-credentials line and touches nothing, and no other batch returns
\* before the end of its list.
C13_MissingCredentials ==
  /\ (pc = "idle" /\ status # "none" /\ (~cfg.supabaseUrl \/ ~cfg.serviceRoleKey))
       => /\ status = "rejected"
          /\ trace = <<Log("MissingCredentials")>>
          /\ outcome = <<>> /\ marks = {} /\ last = NoEvent
          /\ StoreAndFiles = before
  /\ (pc = "idle" /\ status \notin {"none", "completed"})
       => (~cfg.supabaseUrl \/ ~cfg.serviceRoleKey)

\* ------------------------------------------------------------------ C14
\* The provider key a selected task uses.
KeyUsed(k) ==
  IF k = "geminiKey" THEN cfg.image \/ (cfg.text /\ cfg.textProvider = "gemini")
  ELSE IF k = "claudeKey" THEN cfg.text /\ cfg.textProvider = "claude"
  ELSE hasAudioTask

\* C14: a batch is rejected only for a missing storage credential or for a
\* missing provider key that one of its selected tasks uses.
C14_KeyOnlyIfTaskSelected ==
  status = "rejected"
    => \/ ~cfg.supabaseUrl \/ ~cfg.serviceRoleKey
       \/ \E k \in {"geminiKey", "claudeKey", "elevenLabsKey"} : ~cfg[k] /\ KeyUsed(k)

\* ------------------------------------------------------------------ C15
\* Provider calls made for the role in its audio segment of the term.
Calls(role) == Cardinality({k \in DOMAIN trace : trace[k] = Ev("call", "tts", role)})
InTts == pc \in {"tts_call", "tts_sleep", "tts_upload", "tts_write",
                 "g_call", "g_backoff", "g_upload", "g_write"}
QuotaReplied == \E k \in DOMAIN trace : trace[k] = Ev("reply", "tts", "429")

\* C15: once the TTS provider has answered 429 for a role, generateAndUploadTTS
\* has returned: the quota line is logged, no call follows the answer and
\* nothing is uploaded or written for the role.
C15_QuotaNotRetried ==
  \A k \in DOMAIN trace :
    trace[k] = Ev("reply", "tts", "429")
      => /\ ~InTts
         /\ Ev("log", "Quota", tts.role) \in Range(trace)
         /\ \A j \in DOMAIN trace : j > k => trace[j].e # "call"
         /\ \A j \in DOMAIN trace : trace[j].e \notin {"upload", "write"}

\* The quota answer came to the retry of a call that had failed otherwise.
C15_Witness ==
  /\ QuotaReplied /\ cfg.version = 1 /\ Calls(tts.role) = maxRetries
  /\ Ev("reply", "tts", "500") \in Range(trace)

\* C15 as stated: a role that got a 429 answer was called exactly once.
C15_ExactlyOneCall ==
  QuotaReplied => Calls(tts.role) = 1

\* ------------------------------------------------------------------ C16
\* C16: after the TTS provider refused the key (401/403) no further call is
\* made for the role.
C16_AuthNotRetried ==
  \A j, k \in DOMAIN trace :
    (j < k /\ trace[j] = Ev("reply", "tts", "401")) => trace[k].e # "call"

\* ------------------------------------------------------------------ C17
NotFoundReplies == {k \in DOMAIN trace : trace[k] = Ev("reply", "tts", "404")}
ModelSwitches == {k \in DOMAIN trace : trace[k].e = "log" /\ trace[k].m = "ModelFallback"}

\* C17: within one TTS request the model is switched at most once, from the
\* primary to the alternate model and never back; a 404 of the alternate
\* model is logged and ends the request without a further call.
C17_FallbackOnce ==
  /\ Cardinality(ModelSwitches) <= 1
  /\ Cardinality(NotFoundReplies) <= 2
  /\ (InTts /\ cfg.version = 2)
       => tts.model = (IF ModelSwitches = {} THEN ProTts ELSE FlashTts)
  /\ Cardinality(NotFoundReplies) = 2
       => /\ ~InTts
          /\ Ev("log", "FallbackFailed", tts.role) \in Range(trace)
          /\ \A j \in DOMAIN trace :
               trace[j].e = "call" => \E k \in NotFoundReplies : k > j

\* The alternate model answered 404 as well, after server errors of both models.
C17_Witness ==
  /\ Cardinality(NotFoundReplies) = 2 /\ Cardinality(ModelSwitches) = 1
  /\ Ev("log", "FallbackFailed", tts.role) \in Range(trace)
  /\ Calls(tts.role) > 2

\* ------------------------------------------------------------------ C18
\* C18: generateAndUploadTTS makes at most maxRetries provider calls for a role
\* in the ElevenLabs version and at most maxRetries per model, over two
\* models, in the Gemini-TTS version.
C18_BoundedCalls ==
  \A role \in Roles :
    Calls(role) <= (IF cfg.version = 1 THEN maxRetries ELSE 2 * maxRetriesGemini)

\* A request of the Gemini-TTS version that used every call it can make.
C18_Witness ==
  /\ cfg.version = 2 /\ ~InTts
  /\ \E role \in Roles : Calls(role) = 2 * maxRetriesGemini

\* ------------------------------------------------------------------ C19
\* C19: a term whose text generation by the selected provider failed has
\* also been submitted to the other provider, when that provider's key is at
\* hand, before it is marked failed.
C19_TextFallback ==
  (/\ pc = "after" /\ outcome[i] = "error"
   /\ \E ev \in Range(trace) : ev.e = "reply" /\ ev.m = "text")
    => /\ (cfg.textProvider = "claude" /\ cfg.geminiKey)
            => Ev("call", "text", "gemini") \in Range(trace)
       /\ (cfg.textProvider = "gemini" /\ cfg.claudeKey)
            => Ev("call", "text", "claude") \in Range(trace)

\* ------------------------------------------------------------------ C20
\* C20: the error line of a term whose text provider raised an error carries
\* that error.
C20_ProviderErrorPropagates ==
  pc = "after"
    => \A ev \in Range(trace) :
         (ev.e = "reply" /\ ev.m = "text") => Ev("log", "Error", ev.d) \in Range(trace)

\* ------------------------------------------------------------------ C21
\* C21: every provider call is bounded by a deadline: whatever the providers
\* do, a batch that was accepted eventually emits its completion line.
C21_BatchCompletesEventually ==
  (status = "running") ~> (status = "completed")

\* ------------------------------------------------------------------ C22
\* The step issues a request to a provider.
IssuesCall ==
  \E k \in DOMAIN trace' :
    /\ trace'[k].e = "call"
    /\ k \notin DOMAIN trace \/ trace[k] # trace'[k]

\* C22: a provider request is issued only when no earlier request of the batch
\* is still outstanding.
C22_SingleOutstanding ==
  [][IssuesCall => inflight = {}]_vars

\* ------------------------------------------------------------------ C23
Table(name) ==
  IF name = "words" THEN words
  ELSE IF name = "localized_content" THEN localized_content
  ELSE IF name = "examples" THEN examples ELSE word_images
\* The rows of a natural key <<table, key columns>>.
RowsOf(k) == {r \in Table(k[1]) : \A f \in DOMAIN k[2] : r[f] = k[2][f]}
NaturalKeys ==
  /\ Unique(words, {"term"})
  /\ Unique(localized_content, {"word_id", "language_code"})
  /\ Unique(examples, {"word_id", "language_code", "sentence_index"})
  /\ Unique(word_images, {"word_id", "style"})

\* C23: when the steps of two runs over the same term interleave, every
\* natural key has one row and each column written by the runs holds the value
\* of the last accepted write that carried that column.
C23_ColumnLastWriterWins ==
  /\ NaturalKeys
  /\ \A k \in DOMAIN owner :
       \E r \in RowsOf(k) : \A c \in DOMAIN owner[k].cols : r[c] = owner[k].cols[c].v

\* Both runs are over; the second one upserted the words row between the
\* first one's upsert and its audio update, so that the row holds the second
\* run's part of speech and the first run's audio URL.
C23_Witness ==
  /\ me # 0 /\ status = "completed" /\ peer.status = "completed"
  /\ LET k == <<"words", [term |-> "huis"]>>
     IN /\ k \in DOMAIN owner
        /\ owner[k].last = 1
        /\ DOMAIN owner[k].cols = {"part_of_speech", "grammar_data", "pronunciation_audio_url"}
        /\ owner[k].cols["part_of_speech"].by = 2
        /\ owner[k].cols["pronunciation_audio_url"].by = 1

\* C23 as stated: every natural key has one row and all the fields of the row
\* that the runs wrote were written by the run that wrote the key last.
C23_LastWriterOwnsRow ==
  /\ NaturalKeys
  /\ \A k \in DOMAIN owner :
       \A c \in DOMAIN owner[k].cols : owner[k].cols[c].by = owner[k].last

\* ------------------------------------------------------------------ C24
\* A store or object-store write of the term that was refused.
StorageFailure(ev) ==
  \/ ev.e \in {"write", "upload"} /\ ev.d = "failed"
  \/ ev.e = "error" /\ ev.m \in {"upload", "audio_url"}
FailureLine(ev) ==
  ev.e = "log" /\ ev.m \in {"Error", "ImageFailed", "StorageUploadError"}

\* The text phase, the image phase or one audio role of the term has just ended
\* and trace holds all of its events.
SegmentEnded == pc \in {"lookup", "C", "C_ex", "after"}

\* C24: when a phase of a term has ended, every upload and every database write
\* of it that was refused is followed by a failure line in the log.
C24_StorageFailuresLogged ==
  SegmentEnded
    => \A k \in DOMAIN trace :
         StorageFailure(trace[k]) => \E j \in DOMAIN trace : j > k /\ FailureLine(trace[j])

\* ------------------------------------------------------------------ C25
Keys(tbl, key) == {[f \in key |-> r[f]] : r \in tbl}
\* The step fails a sub-step of the term: the term ends in error, or an image
\* or audio failure is added to those of the term.
FailureStep ==
  \/ \E k \in DOMAIN outcome \cap DOMAIN outcome' : outcome[k] # "error" /\ outcome'[k] = "error"
  \/ \E ev \in marks' \ marks : ev.e = "fail"

\* C25: no step removes a row of any table or a file of the object store, and
\* a step in which a sub-step of a term fails changes no row and no file.
C25_NoRollbackNoDeletion ==
  [][/\ Keys(words, {"term"}) \subseteq Keys(words', {"term"})
     /\ Keys(localized_content, {"word_id", "language_code"})
          \subseteq Keys(localized_content', {"word_id", "language_code"})
     /\ Keys(examples, {"word_id", "language_code", "sentence_index"})
          \subseteq Keys(examples', {"word_id", "language_code", "sentence_index"})
     /\ Keys(word_images, {"word_id", "style"}) \subseteq Keys(word_images', {"word_id", "style"})
     /\ files \subseteq files'
     /\ FailureStep => StoreAndFiles' = StoreAndFiles]_vars

\* The image and the audio of a term failed after its text rows and one audio
\* URL had been written, and those rows are as they were written.
C25_Witness ==
  /\ pc = "fin" /\ cfg.text /\ ImageFailure # {} /\ \E role \in Roles : TtsFailed(role)
  /\ localized_content # before.localized_content /\ words # before.words
  /\ \E r \in localized_content : r.word_id = wordId /\ r.definition = wordData.definition

\* ------------------------------------------------------------------ C26
\* C26: every examples row has sentence_index 0 or 1, and after a text phase
\* whose writes were accepted the (word, language) has exactly the rows of
\* index 0 and 1.
C26_ExampleIndexDomain ==
  /\ \A x \in examples : x.sentence_index \in {0, 1}
  /\ (pc = "lookup" /\ cfg.text /\ ~\E ev \in Range(trace) : StorageFailure(ev))
       => {x.sentence_index : x \in {r \in examples : r.word_id = wordId
                                       /\ r.language_code = cfg.targetLangCode}} = {0, 1}

\* ------------------------------------------------------------------ C27
Terminal(ev) == ev.e = "log" /\ ev.m \in {"Finished", "Error", "NotFound"}
TerminalLines == {k \in DOMAIN trace : Terminal(trace[k])}
Ended == {"finished", "error", "notfound"}

\* C27: the terms before the current one have each ended with one outcome,
\* those after it have none, and the current term has none before its
\* processing line, is running until its terminal line and has ended after it;
\* the terminal line is emitted once, after every call and write of the term.
C27_PerTermSummary ==
  status = "running"
    => /\ \A k \in 1..Len(list) :
            Trim(list[k]) # ""
              => IF k < i THEN outcome[k] \in Ended
                 ELSE IF k > i \/ pc = "loop" THEN outcome[k] = "none"
                 ELSE IF pc = "after" THEN outcome[k] \in Ended
                 ELSE outcome[k] = "started"
       /\ pc = "after" => Cardinality(TerminalLines) = 1 /\ Terminal(trace[Len(trace)])
       /\ pc \notin {"after", "loop", "idle"} => TerminalLines = {}
       /\ (pc = "loop" /\ i > 1 /\ outcome[i - 1] = "notfound")
            => Cardinality(TerminalLines) = 1 /\ Terminal(trace[Len(trace)])

\* The second term of a list ended after the image and audio phases, the first
\* one having been skipped as not found.
C27_Witness ==
  /\ pc = "after" /\ i = 2 /\ outcome = <<"notfound", "finished">>
  /\ Called("image") /\ Called("tts")

\* ------------------------------------------------------------------ C28
Wrote(m) == \E ev \in Range(trace) : ev.e \in {"write", "upload"} /\ ev.m = m

\* C28: the image provider is called and word_images written only with the
\* image task and a resolved word id, the TTS provider is called and an audio
\* URL written for a role only with that role's task and a resolved word id,
\* and the text provider is called and the text tables written only with the
\* text task.
C28_TaskGating ==
  /\ (Called("image") \/ Wrote("image") \/ Wrote("word_images"))
       => cfg.image /\ wordId # NULL
  /\ \A role \in Roles :
       (CalledTts(role) \/ \E ev \in Range(trace) :
                             ev.e \in {"write", "upload"} /\ ev.m \in {"audio", "audio_url"}
                             /\ ev.d = role)
         => Selected(role) /\ wordId # NULL
  /\ (Called("text") \/ Wrote("words") \/ Wrote("localized_content") \/ Wrote("examples"))
       => cfg.text

\* A term of a batch without the text task and with the word audio alone: the
\* image of a stored word was written and only the word role was called.
C28_Witness ==
  /\ pc = "fin" /\ ~cfg.text /\ cfg.image /\ cfg.audioWord /\ ~cfg.audioEx1
  /\ Called("image") /\ CalledTts("word") /\ word_images # before.word_images
  /\ Len(wordData.examples) = 2

\* ------------------------------------------------------------------ C29
\* C29: a term that failed in its text phase is at its end: nothing of the
\* image or audio phase was called, uploaded or written for it, and the
\* handler is leaving it for the next list position.
C29_FailedIsAbsorbing ==
  \A k \in 1..Len(outcome) :
    outcome[k] = "error"
      => \/ k < i
         \/ /\ k = i /\ pc = "after"
            /\ Rank(last) <= 1
            /\ ~Called("image") /\ ~Called("tts")
            /\ files = before.files /\ word_images = before.word_images
            /\ examples = before.examples /\ localized_content = before.localized_content

\* The words upsert of a term was refused with image and audio tasks selected.
C29_Witness ==
  /\ pc = "after" /\ outcome[i] = "error" /\ Ev("write", "words", "failed") \in Range(trace)
  /\ cfg.image /\ hasAudioTask

\* ------------------------------------------------------------------ C30
\* C30: when text, image and both example-audio tasks run together and the
\* generator returned two examples, the image call is made with the first
\* generated sentence and the TTS provider is called for both example roles.
C30_TextFeedsLaterPhases ==
  (cfg.text /\ cfg.image /\ cfg.audioEx1 /\ cfg.audioEx2 /\ cfg.elevenLabsKey
   /\ Len(Field(wordData, "examples")) = 2)
    => /\ \A ev \in Range(trace) :
            (ev.e = "call" /\ ev.m = "image") => ev.d = Sentence(term, 0)
       /\ pc = "fin" => CalledTts("ex1") /\ CalledTts("ex2")

\* ------------------------------------------------------------------ C31
\* C31: every image file in the object store is the 960x540 canvas, stamped and
\* encoded as JPEG.
C31_ImagesPostProcessed ==
  \A f \in files : f.prefix = "images" => f.content = "jpeg960x540"

\* ------------------------------------------------------------------ C32
\* The grammar data the generator returned: `grammar_data` of the Claude entry,
\* `grammar` of the Gemini entry.
GeneratedGrammar ==
  IF "grammar" \in DOMAIN wordData THEN wordData.grammar ELSE wordData.grammar_data

\* C32: after a text phase whose writes were accepted, the words row holds the
\* generator's grammar data and the examples row of each index holds the
\* generator's sentence and translation of that index.
C32_StoredTextEqualsGenerated ==
  (pc = "lookup" /\ cfg.text /\ ~\E ev \in Range(trace) : StorageFailure(ev))
    => /\ \A w \in words : w.term = wordId => w.grammar_data = GeneratedGrammar
       /\ \A k \in 1..Len(wordData.examples) :
            \E x \in examples :
              /\ x.word_id = wordId /\ x.language_code = cfg.targetLangCode
              /\ x.sentence_index = k - 1
              /\ x.dutch_sentence = wordData.examples[k].target
              /\ x.translation = wordData.examples[k].source

\* ------------------------------------------------------------------ C33
\* The rows the lookup of the term read: the store is as the term found it.
StoredExamples ==
  {r \in before.examples : r.word_id = wordId /\ r.language_code = cfg.targetLangCode}
StoredArticle == (CHOOSE w \in before.words : w.term = wordId).grammar_data
PastLookup ==
  /\ ~cfg.text /\ wordId # NULL
  /\ pc \in {"lookup_ex", "lookup_any", "B", "B_call", "B_mark", "B_upload", "B_write", "C",
             "C_word", "C_ex", "tts_call", "tts_sleep", "tts_upload", "tts_write", "fin", "hung"}

\* C33: in a batch without the text task, for a term whose words row exists,
\* the image is asked for with the stored example of the lowest sentence_index
\* of (word, language), the word audio speaks the stored article, an example
\* role is skipped or spoken by the audio_url of its stored row, and the
\* lookup writes nothing to the store.
C33_LookupReconstruction ==
  PastLookup =>
    /\ \A ev \in Range(trace) :
         (ev.e = "call" /\ ev.m = "image" /\ StoredExamples # {})
           => \E r \in StoredExamples :
                /\ \A y \in StoredExamples : r.sentence_index <= y.sentence_index
                /\ ev.d = r.dutch_sentence
    /\ tts.role = "word"
         => tts.text = IF StoredArticle \in {"de", "het"} THEN <<StoredArticle, wordId>>
                       ELSE <<wordId>>
    /\ \A r \in StoredExamples :
         /\ (tts.role = RoleOf(r.sentence_index) /\ r.sentence_index \in {0, 1})
              => /\ tts.had = (r.audio_url # NoUrl)
                 /\ tts.text = <<r.dutch_sentence>>
                 /\ ~(r.audio_url # NoUrl /\ ~cfg.overwriteAudio)
         /\ Ev("log", "AudioExists", RoleOf(r.sentence_index)) \in Range(trace)
              => r.audio_url # NoUrl /\ ~cfg.overwriteAudio
    /\ pc \in {"lookup_ex", "lookup_any", "B"} => StoreAndFiles = before

\* ------------------------------------------------------------------ C34
InTextPhase == cfg.text /\ pc \in {"A_gen", "A_words", "A_lc", "A_ex"}
OtherLanguage(tbl) == {r \in tbl : r.language_code # cfg.targetLangCode}

\* C34: a step of the text phase keeps every stored pronunciation_audio_url,
\* every word_images row, and every localized_content and examples row of
\* another language.
C34_TextKeepsWordAudio ==
  [][InTextPhase
       => /\ \A w \in words : w.pronunciation_audio_url # NoUrl
               => \E v \in words' : /\ v.term = w.term
                                    /\ v.pronunciation_audio_url = w.pronunciation_audio_url
          /\ word_images' = word_images
          /\ OtherLanguage(localized_content') = OtherLanguage(localized_content)
          /\ OtherLanguage(examples') = OtherLanguage(examples)]_vars

\* The text of a word with word audio, an image and content in another
\* language was regenerated: its words row and its examples rows changed.
C34_Witness ==
  /\ pc = "lookup" /\ cfg.text /\ wordId = "huis"
  /\ words # before.words /\ examples # before.examples
  /\ \E w \in words : w.term = wordId /\ w.pronunciation_audio_url # NoUrl
  /\ word_images # {} /\ OtherLanguage(localized_content) # {}

\* ------------------------------------------------------------------ C35
InAudioPhase ==
  pc \in {"C", "C_word", "C_ex", "tts_call", "tts_sleep", "tts_upload", "tts_write"}
\* The role at hand has failed: its synthesis gave up or its upload was refused.
RoleFailed(evs) == Ev("fail", "tts", tts.role) \in Range(evs)
Uploaded(u) == u # NoUrl /\ \E f \in files : FileUrl(f) = u

\* C35: a step of the audio phase changes a stored audio URL only to the URL
\* of an uploaded file, and once the role at hand has failed its steps change
\* no stored audio URL, whether or not overwriteAudio is set.
C35_FailedAudioKeepsUrl ==
  [][InAudioPhase
       => /\ \A w \in words, v \in words' :
               (v.term = w.term /\ v.pronunciation_audio_url # w.pronunciation_audio_url)
                 => Uploaded(v.pronunciation_audio_url) /\ ~RoleFailed(trace')
          /\ \A x \in examples, y \in examples' :
               (/\ y.word_id = x.word_id /\ y.language_code = x.language_code
                /\ y.sentence_index = x.sentence_index /\ y.audio_url # x.audio_url)
                 => Uploaded(y.audio_url) /\ ~RoleFailed(trace')]_vars

\* With overwriteAudio set, the upload for a word that has audio was refused
\* and the role is over: the words row is the one the term started with.
C35_Witness ==
  /\ pc = "C_ex" /\ tts.role = "word" /\ tts.had /\ cfg.overwriteAudio
  /\ Ev("error", "upload", "word") \in Range(trace)
  /\ words = before.words /\ words # {}

\* ------------------------------------------------------------------ C36
ImageTimeout == Ev("reply", "image", "API Timeout after 25000ms")
ImageFiles(fs) == {f \in fs : f.prefix = "images"}

\* C36: the step in which the answer to a timed-out image request arrives
\* uploads nothing, writes no word_images row and leaves the term where it is;
\* the term whose image call timed out has the failure logged and marked, and
\* its word_images rows and image files are those it started with.
C36_LateImageDiscarded ==
  [][/\ (inflight' # inflight /\ inflight' \subseteq inflight)
          => /\ files' = files /\ word_images' = word_images
             /\ pc' = pc /\ outcome' = outcome /\ trace' = trace /\ marks' = marks
     /\ (ImageTimeout \in Range(trace'))
          => /\ Log("ImageFailed") \in Range(trace')
             /\ Ev("fail", "image", "") \in marks'
             /\ word_images' = before'.word_images
             /\ ImageFiles(files') = ImageFiles(before'.files)]_vars

\* The image call of a term timed out, the failure was logged, and the
\* provider's answer has arrived since.
C36_Witness ==
  /\ pc = "C" /\ cfg.image /\ inflight = {}
  /\ ImageTimeout \in Range(trace) /\ Log("ImageFailed") \in Range(trace)

\* ------------------------------------------------------------------ C37
\* C37: an examples row with an audio URL points to a file that holds the
\* speech of the sentence the row holds.
C37_AudioMatchesSentence ==
  \A x \in examples :
    x.audio_url # NoUrl
      => \E f \in files : FileUrl(f) = x.audio_url /\ f.content = x.dutch_sentence

\* ------------------------------------------------------------------ C38
ExampleRoles == {"ex1", "ex2"}
SavedLogged ==
  \E m \in {"Saved", "Overwritten"} : Ev("log", m, tts.role) \in Range(trace)

\* C38: an example role that was logged as saved has an examples row of
\* (word, batch language, its index) whose audio_url is the uploaded URL, and
\* the sentence spoken for an example role is the sentence of an examples row
\* of the batch language.
C38_SavedAudioPersisted ==
  (tts.role \in ExampleRoles /\ pc \in {"tts_call", "tts_sleep", "tts_upload", "tts_write",
                                        "C_ex", "fin", "hung"})
    => /\ SavedLogged
            => \E x \in examples : /\ x.word_id = wordId
                                   /\ x.language_code = cfg.targetLangCode
                                   /\ x.sentence_index = tts.sIndex
                                   /\ x.audio_url = url
       /\ \E x \in examples : /\ x.word_id = wordId
                              /\ x.language_code = cfg.targetLangCode
                              /\ tts.text = <<x.dutch_sentence>>

====
